---- MODULE Spec2Model ----
(***************************************************************************)
(* Verification model of compress-o-bot: archive splitting, conversation   *)
(* linearization, turn segmentation, breakpoint application, and the two   *)
(* bounded-concurrency stages (thread rollup, chunk summarizer).           *)
(*                                                                         *)
(* Indices are 0-based as in the Go source; a Go slice s is the TLA+       *)
(* sequence whose element s[i] is Seq[i+1].                                *)
(***************************************************************************)
EXTENDS Integers, Sequences, FiniteSets, TLC

VARIABLES
    \* ---- turn segmentation / breakpoint application (migration) ----
    msgs,          \* thread.Messages, as the sequence of message roles
    breakpoints,   \* raw breakpoint list handed to ApplyTurnBreakpoints / normalizeBreakpoints
    totalTurns,    \* the totalTurns argument of a direct normalizeBreakpoints call
    turns,         \* result of BuildTurns
    chunks,        \* chunks returned by ApplyTurnBreakpoints
    applyErr,      \* "" or the error returned by ApplyTurnBreakpoints
    normOut,       \* slice returned by normalizeBreakpoints
    normErr,       \* error returned by normalizeBreakpoints (FALSE = nil)
    cpc,           \* position: "start", "turns", "applied", "normalized"
    \* ---- SplitConversationArchive (migration) ----
    overwriteExisting, \* opts.OverwriteExisting
    splitCtxDone,  \* ctx.Done() of the split run is closed
    seen,          \* seen: base name -> number of elements that had it
    assigned,      \* the output file name computed for each element so far, in order
    files,         \* output directory: file name -> index of the element whose content it holds (0 = from an earlier run)
    threadsWritten,\* res.ThreadsWritten
    archiveLen,    \* the number of elements of the conversations array
    decoded,       \* the number of elements dec.Decode has consumed
    splitResult,   \* "running", "ok", or the error the run returned
    \* ---- linearizeMessages (migration) ----
    mapping,       \* node id -> [parent, message]; ids are 1..n, parent 0 is nil or ""
    currentNode,   \* conv.CurrentNode (0 = "")
    lstart,        \* the local variable start
    linFirst,      \* the node the walk began at
    visited,       \* the visited set
    reversed,      \* messages collected so far (by node id), newest first
    dropped,       \* visited nodes whose message simplifyMessage rejected as noise
    li,            \* the loop counter i
    linMsgs,       \* the returned message list
    linResult,     \* "init", "walking", "ok", or the returned error
    \* ---- forEachThreadIDConcurrent (cmd/thread-rollup) ----
    concurrency,   \* the concurrency argument as passed in
    threadIDs,     \* the set of item indices 1..len(threadIDs)
    spawned,       \* number of goroutines the loop has started
    wpc,           \* per item: position of its goroutine
    sem,           \* number of tokens in the sem channel
    errCh,         \* the errCh buffer (items whose error was sent, in order)
    ctxErr,        \* ctx.Err() of the derived context: "", "canceled" or "deadline"
    invoked,       \* items for which fn has been invoked
    poolResult,    \* "running", "nil", or the returned error
    \* ---- chunk-summarizer main: batches of workers, glossary ----
    chunkFiles,    \* the chunk files, as indices 1..len(chunkFiles)
    batchSize,     \* cfg.BatchSize as given (0 = one batch)
    bConcurrency,  \* cfg.Concurrency as given (0 = 1)
    resume,        \* cfg.Resume
    glossaryMaxTerms, \* cfg.GlossaryMaxTerms
    bstart,        \* the loop variable bstart
    bspawned,      \* goroutines started in the current batch
    bpc,           \* position of main
    bwpc,          \* per chunk file: position of its goroutine
    bsem,          \* tokens in the batch's sem channel
    bErrCh,        \* the batch's errCh buffer (items, in send order)
    updatesCh,     \* the batch's updatesCh buffer (items, in send order)
    glossary,      \* the in-memory glossary: terms in entry order (an item's term is its index)
    savedGlossary, \* content of the glossary file
    glossaryExcerpt, \* the batch's glossaryExcerpt
    excerptSeen,   \* per chunk file: the excerpt its summarizer call was given (<<0>> before the call)
    failedItems,   \* items whose processing hit an error
    reported,      \* items whose error main printed
    bctxDone,      \* the signal context is cancelled
    \* ---- writeThreadSummaryWithOptionalSplit (cmd/thread-rollup) ----
    summaries,     \* the thread's chunk summaries, as their indices in order
    maxChunksPerThread, \* cfg.MaxChunksPerThread
    rOverwrite,    \* cfg.Overwrite
    rResume,       \* cfg.Resume
    partFiles,     \* part numbers (1-based) whose part file exists
    parts,         \* the windows returned by chunkWindows
    ri,            \* the loop index i over parts
    partSummaries, \* the partial summaries collected so far
    mergeCalls,    \* the argument of every RollupFromThreadSummaries call, in order
    rollupCalls,   \* the window argument of every Rollup call, in order
    finalWritten,  \* the final thread summary file has been written by this call
    rResult,       \* "start", "windows", "ok", or the returned error
    \* ---- ChunkThread, fallbackBreakpoints (migration) ----
    thread,        \* thread.Messages of the thread file, as the sequence of message roles
    targetTurnsPerChunk, \* the targetTurnsPerChunk argument
    decided,       \* the list decider.DecideBreakpoints returns
    deciderErr,    \* decider.DecideBreakpoints returns an error
    tOverwrite,    \* opts.OverwriteExisting
    fbTotalTurns,  \* the totalTurns argument of a direct fallbackBreakpoints call
    tTurns,        \* the local variable turns
    tBreakpoints,  \* the local variable breakpoints after the fallback test
    tChunks,       \* the slice ApplyTurnBreakpoints returned to ChunkThread
    written,       \* chunk files written by this call, in order: [filename, content]
    tResult,       \* "start", "writing", "ok", "fallback", or the returned error
    \* ---- linearizeMessages run a second time on the same conversation ----
    runNo,         \* 1 during the first run over the conversation, 2 during the second
    firstResult,   \* what the first run returned: "ok" or the error
    firstMsgs,     \* the message list the first run returned
    firstVisited,  \* the nodes the first run visited
    firstDropped,  \* the nodes whose message simplifyMessage rejected in the first run
    \* ---- openAIThreadRolluper.Rollup / RollupFromThreadSummaries (cmd/thread-rollup) ----
    inStarts,      \* ThreadStart of each input item, in order; a *float64 is <<>> (nil) or <<v>>
    outStart,      \* out.ThreadStart, the start time in the model's decoded answer
    rolluper,      \* "chunks" for Rollup, "parts" for RollupFromThreadSummaries
    resStart,      \* ThreadStart of the returned ThreadSummary
    sResult,       \* "start", "ok", or the returned error
    \* ---- one resumable item: a chunk in chunk-summarizer's worker, a thread in processThreadRollup ----
    kind,          \* "chunk" or "thread"
    launcher,      \* "pipeline": the command is started by archive-pipeline; "direct": by hand
    plOverwrite,   \* cfg.Overwrite of archive-pipeline
    iResume,       \* cfg.Resume of the command
    iOverwrite,    \* cfg.Overwrite of the command
    iSentiment,    \* thread: cfg.SentimentOutDir is set and the thread has sentiment chunk summaries
    iExisted,      \* the item's output files that exist when the command starts
    iWritten,      \* the item's output files this run has written
    iCalls,        \* the summarizer / rolluper calls this run has made for the item
    iResult,       \* position in the handler, or how it ended
    \* ---- one atomic file write: writeFileAtomic / writeFileAtomicSameDir ----
    aCaller,       \* the call site
    aOutDir,       \* the caller's output directory, a sequence of path components
    aData,         \* data, the payload
    aPrev,         \* the destination before the call: <<>> absent, <<c>> a file with content c
    aDest,         \* the destination now
    aTmp,          \* the temp file: <<>> none, <<[dir, content]>>
    aPc,           \* the next step of the function
    aErr,          \* the step whose error is being returned, "" for none
    aResult,       \* "idle", "running", "nil" or "error"
    \* ---- one provider call: callWithRetry ----
    rCaller,       \* the summarizer / rolluper method making the call
    attempt,       \* attempt, the loop variable
    rpc,           \* "call", "sleep", "returned"
    rErr,          \* the error of the last client.Responses.New, "" for none
    rCtxDone,      \* ctx is cancelled
    rSlept,        \* the backoff waits completed so far, in seconds
    retryResult,   \* "idle", "running", "resp" or the returned error
    \* ---- one node of the walked path: simplifyMessage ----
    nMessage,      \* n.Message: <<>> for nil, <<m>> for a rawMessage m
    appended,      \* what the step appended to reversed
    mpc,           \* "idle", "node", "done"
    \* ---- chunk-summarizer started again after a failed run ----
    bRun,          \* 1 in the first run of chunk-summarizer, 2 in the resumed run
    onDisk         \* chunk files both of whose summary files the first run wrote

chunkVars == <<msgs, breakpoints, totalTurns, turns, chunks, applyErr, normOut, normErr, cpc>>

splitVars == <<overwriteExisting, splitCtxDone, seen, assigned, files, threadsWritten, archiveLen,
              decoded, splitResult>>

linVars == <<mapping, currentNode, lstart, linFirst, visited, reversed, dropped, li, linMsgs, linResult>>

poolVars == <<concurrency, threadIDs, spawned, wpc, sem, errCh, ctxErr, invoked, poolResult>>

batchVars == <<chunkFiles, batchSize, bConcurrency, resume, glossaryMaxTerms, bstart, bspawned, bpc,
               bwpc, bsem, bErrCh, updatesCh, glossary, savedGlossary, glossaryExcerpt,
               excerptSeen, failedItems, reported, bctxDone>>

rollVars == <<summaries, maxChunksPerThread, rOverwrite, rResume, partFiles, parts, ri,
              partSummaries, mergeCalls, rollupCalls, finalWritten, rResult>>

threadVars == <<thread, targetTurnsPerChunk, decided, deciderErr, tOverwrite, fbTotalTurns,
                tTurns, tBreakpoints, tChunks, written, tResult>>

rerunVars == <<runNo, firstResult, firstMsgs, firstVisited, firstDropped>>

startVars == <<inStarts, outStart, rolluper, resStart, sResult>>

itemVars == <<kind, launcher, plOverwrite, iResume, iOverwrite, iSentiment, iExisted, iWritten,
              iCalls, iResult>>

atomVars == <<aCaller, aOutDir, aData, aPrev, aDest, aTmp, aPc, aErr, aResult>>

retryVars == <<rCaller, attempt, rpc, rErr, rCtxDone, rSlept, retryResult>>

msgVars == <<nMessage, appended, mpc>>

resumeVars == <<bRun, onDisk>>

vars == <<chunkVars, splitVars, linVars, poolVars, batchVars, rollVars, threadVars, rerunVars, startVars, itemVars, atomVars, retryVars, msgVars, resumeVars>>

----------------------------------------------------------------------------
(* Bounds *)
MaxMsgs == 3
MaxBps == 3
MaxElems == 3
MaxNodes == 3
MaxItems == 3
MaxConc == 2
MaxSummaries == 4
MaxThreadMsgs == 5
MaxDecided == 2
MaxTarget == 4
MaxTurns == 12
MaxInputs == 3
MaxWinItems == 16
MaxWinSize == 10
MaxStart == 3
MaxData == 2

Roles == {"user", "assistant", "system"}

\* All sequences over S of length at most n.
SeqsUpTo(S, n) == UNION {[1..k -> S] : k \in 0..n}

\* Breakpoint values: negative, zero, inside, equal to and beyond any turn count.
BpVals == -1..(MaxMsgs + 1)

----------------------------------------------------------------------------
(* Each specification below runs one component; the state of the others is  *)
(* held at these values.                                                    *)
ChunkIdle ==
    /\ msgs = <<>> /\ breakpoints = <<>> /\ totalTurns = 0
    /\ turns = <<>> /\ chunks = <<>> /\ applyErr = ""
    /\ normOut = <<>> /\ normErr = FALSE /\ cpc = "idle"

SplitIdle ==
    /\ overwriteExisting = FALSE /\ splitCtxDone = FALSE
    /\ seen = <<>> /\ assigned = <<>> /\ files = <<>>
    /\ threadsWritten = 0 /\ archiveLen = 0 /\ decoded = 0 /\ splitResult = "idle"

LinIdle ==
    /\ mapping = <<>> /\ currentNode = 0 /\ lstart = 0 /\ linFirst = 0
    /\ visited = {} /\ reversed = <<>> /\ dropped = {} /\ li = 0 /\ linMsgs = <<>>
    /\ linResult = "idle"

PoolIdle ==
    /\ concurrency = 0 /\ threadIDs = {} /\ spawned = 0 /\ wpc = <<>> /\ sem = 0
    /\ errCh = <<>> /\ ctxErr = "" /\ invoked = {} /\ poolResult = "idle"

BatchIdle ==
    /\ chunkFiles = {} /\ batchSize = 0 /\ bConcurrency = 0 /\ resume = FALSE
    /\ glossaryMaxTerms = 0 /\ bstart = 0 /\ bspawned = 0 /\ bpc = "idle" /\ bwpc = <<>>
    /\ bsem = 0 /\ bErrCh = <<>> /\ updatesCh = <<>> /\ glossary = <<>>
    /\ savedGlossary = <<>> /\ glossaryExcerpt = <<>> /\ excerptSeen = <<>>
    /\ failedItems = {} /\ reported = {} /\ bctxDone = FALSE

RollIdle ==
    /\ summaries = <<>> /\ maxChunksPerThread = 0 /\ rOverwrite = FALSE /\ rResume = FALSE
    /\ partFiles = {} /\ parts = <<>> /\ ri = 0 /\ partSummaries = <<>>
    /\ mergeCalls = <<>> /\ rollupCalls = <<>> /\ finalWritten = FALSE /\ rResult = "idle"

RerunIdle ==
    /\ runNo = 0 /\ firstResult = "" /\ firstMsgs = <<>> /\ firstVisited = {} /\ firstDropped = {}

StartIdle ==
    /\ inStarts = <<>> /\ outStart = <<>> /\ rolluper = "" /\ resStart = <<>> /\ sResult = "idle"

ItemIdle ==
    /\ kind = "" /\ launcher = "" /\ plOverwrite = FALSE /\ iResume = FALSE /\ iOverwrite = FALSE
    /\ iSentiment = FALSE /\ iExisted = {} /\ iWritten = {} /\ iCalls = {} /\ iResult = "idle"

AtomIdle ==
    /\ aCaller = "" /\ aOutDir = <<>> /\ aData = <<>> /\ aPrev = <<>> /\ aDest = <<>>
    /\ aTmp = <<>> /\ aPc = "" /\ aErr = "" /\ aResult = "idle"

RetryIdle ==
    /\ rCaller = "" /\ attempt = 0 /\ rpc = "" /\ rErr = "" /\ rCtxDone = FALSE
    /\ rSlept = <<>> /\ retryResult = "idle"

MsgIdle ==
    /\ nMessage = <<>> /\ appended = <<>> /\ mpc = "idle"

ResumeIdle ==
    /\ bRun = 1 /\ onDisk = {}

ThreadIdle ==
    /\ thread = <<>> /\ targetTurnsPerChunk = 0 /\ decided = <<>> /\ deciderErr = FALSE
    /\ tOverwrite = FALSE /\ fbTotalTurns = 0 /\ tTurns = <<>> /\ tBreakpoints = <<>>
    /\ tChunks = <<>> /\ written = <<>> /\ tResult = "idle"

----------------------------------------------------------------------------
(* sort.Ints, computed as an insertion sort *)
RECURSIVE InsertSorted(_, _)
InsertSorted(x, s) ==
    IF s = <<>> THEN <<x>>
    ELSE IF x <= Head(s) THEN <<x>> \o s
    ELSE <<Head(s)>> \o InsertSorted(x, Tail(s))

\* sort.Ints left out: the list is used in the order given
SortInts_unsorted(s) == s

RECURSIVE SortInts(_)
SortInts(s) == IF s = <<>> THEN <<>> ELSE InsertSorted(Head(s), SortInts(Tail(s)))

\* for _, b := range bps { bounds filter; b == prev filter; append; prev = b }
\* the loop without the b == prev test
RECURSIVE normalizeLoop_nodedupe(_, _, _, _)
normalizeLoop_nodedupe(bps, T, prev, out) ==
    IF bps = <<>> THEN out
    ELSE LET b == Head(bps) IN
         IF b <= 0 \/ b >= T THEN normalizeLoop_nodedupe(Tail(bps), T, prev, out)
         ELSE normalizeLoop_nodedupe(Tail(bps), T, b, Append(out, b))

RECURSIVE normalizeLoop(_, _, _, _)
normalizeLoop(bps, T, prev, out) ==
    IF bps = <<>> THEN out
    ELSE LET b == Head(bps) IN
         IF b <= 0 \/ b >= T THEN normalizeLoop(Tail(bps), T, prev, out)
         ELSE IF b = prev THEN normalizeLoop(Tail(bps), T, prev, out)
         ELSE normalizeLoop(Tail(bps), T, b, Append(out, b))

normalizeBreakpoints(bs, T) ==
    IF T <= 1 THEN [out |-> <<>>, err |-> FALSE]
    ELSE IF Len(bs) = 0 THEN [out |-> <<>>, err |-> FALSE]
    ELSE [out |-> normalizeLoop(SortInts(bs), T, -1, <<>>), err |-> FALSE]

----------------------------------------------------------------------------
(* BuildTurns *)
\* userIdxs: the 0-based indices of the user-role messages, ascending.
RECURSIVE userIdxsFrom(_, _)
userIdxsFrom(m, i) ==
    IF i >= Len(m) THEN <<>>
    ELSE IF m[i + 1] = "user" THEN <<i>> \o userIdxsFrom(m, i + 1)
    ELSE userIdxsFrom(m, i + 1)

turnFromRange(turnIndex, start, end) ==
    [TurnIndex |-> turnIndex, StartMessageIndex |-> start, EndMessageIndex |-> end]

BuildTurns(m) ==
    IF Len(m) = 0 THEN <<>>
    ELSE LET userIdxs == userIdxsFrom(m, 0) IN
         IF Len(userIdxs) = 0 THEN <<turnFromRange(0, 0, Len(m) - 1)>>
         ELSE [k \in 1..Len(userIdxs) |->
                 turnFromRange(k - 1, userIdxs[k],
                               IF k < Len(userIdxs) THEN userIdxs[k + 1] - 1 ELSE Len(m) - 1)]

----------------------------------------------------------------------------
(* ApplyTurnBreakpoints *)
\* the loop over adjacent boundary pairs; i is the 0-based loop index
RECURSIVE applyLoop(_, _, _, _, _)
applyLoop(i, boundaries, m, ts, acc) ==
    IF ~(i + 1 < Len(boundaries)) THEN
        IF Len(acc) = 0 THEN [chunks |-> <<>>, err |-> "produced no chunks"]
        ELSE [chunks |-> acc, err |-> ""]
    ELSE LET tStart == boundaries[i + 1]
             tEnd == boundaries[i + 2]
         IN IF tStart >= tEnd THEN applyLoop(i + 1, boundaries, m, ts, acc)
            ELSE LET ms == ts[tStart + 1].StartMessageIndex
                     me == ts[tEnd].EndMessageIndex
                 IN IF ms < 0 \/ me < ms \/ me >= Len(m)
                    THEN [chunks |-> <<>>, err |-> "invalid message range"]
                    ELSE applyLoop(i + 1, boundaries, m, ts,
                            Append(acc, [ChunkNumber |-> 0,
                                         TurnStart |-> tStart,
                                         TurnEnd |-> tEnd,
                                         Messages |-> SubSeq(m, ms + 1, me + 1)]))

ApplyTurnBreakpoints(m, ts, bs) ==
    IF Len(ts) = 0 THEN [chunks |-> <<>>, err |-> "no turns"]
    ELSE LET n == normalizeBreakpoints(bs, Len(ts)) IN
         IF n.err THEN [chunks |-> <<>>, err |-> "normalize"]
         ELSE applyLoop(0, <<0>> \o n.out \o <<Len(ts)>>, m, ts, <<>>)


----------------------------------------------------------------------------
(* SplitConversationArchive: file naming *)
\* A string is a sequence of one-character strings.
Letters == {"a", "b", "d", "p", "u"}
Digits == {"0", "1", "2", "3", "4", "5", "6", "7", "8", "9"}
Spaces == {" "}

RECURSIVE TrimLeft(_, _)
TrimLeft(s, cutset) ==
    IF s # <<>> /\ Head(s) \in cutset THEN TrimLeft(Tail(s), cutset) ELSE s

RECURSIVE TrimRight(_, _)
TrimRight(s, cutset) ==
    IF s # <<>> /\ s[Len(s)] \in cutset THEN TrimRight(SubSeq(s, 1, Len(s) - 1), cutset) ELSE s

\* strings.Trim(s, cutset)
Trim(s, cutset) == TrimRight(TrimLeft(s, cutset), cutset)

\* strings.TrimSpace
TrimSpace(s) == Trim(s, Spaces)

\* strings.TrimPrefix
TrimPrefix(s, prefix) ==
    IF Len(s) >= Len(prefix) /\ SubSeq(s, 1, Len(prefix)) = prefix
    THEN SubSeq(s, Len(prefix) + 1, Len(s)) ELSE s

sanitizeRune(r) ==
    IF r \in Letters \cup Digits THEN r
    ELSE IF r \in {"-", "_", "."} THEN r
    ELSE "_"

sanitizeFilenameComponent(str) ==
    LET s == TrimSpace(str) IN
    IF s = <<>> THEN <<>>
    ELSE LET b == [i \in 1..Len(s) |-> sanitizeRune(s[i])]
             o1 == Trim(b, {".", "_", "-"})
             o2 == TrimPrefix(o1, <<".", ".">>)
             o3 == TrimPrefix(o2, <<".">>)
         IN TrimSpace(o3)

\* fmt.Sprintf("%d", n) for n >= 0
DigitChar(d) == CASE d = 0 -> "0" [] d = 1 -> "1" [] d = 2 -> "2" [] d = 3 -> "3" [] d = 4 -> "4"
                  [] d = 5 -> "5" [] d = 6 -> "6" [] d = 7 -> "7" [] d = 8 -> "8" [] d = 9 -> "9"

RECURSIVE FormatInt(_)
FormatInt(n) == IF n < 10 THEN <<DigitChar(n)>> ELSE FormatInt(n \div 10) \o <<DigitChar(n % 10)>>

\* seen[base] of a Go map: the zero value when the key is absent
seenCountOf(sn, base) == IF base \in DOMAIN sn THEN sn[base] ELSE 0

\* filename := base; if seenCount > 0 { filename = base-(seenCount+1) }; filename += ".json"
outFilename(base, seenCount) ==
    (IF seenCount > 0 THEN base \o <<"-">> \o FormatInt(seenCount + 1) ELSE base)
        \o <<".", "j", "s", "o", "n">>

\* Conversation ids met in an archive: plain, already suffixed, ids that
\* sanitize to the same base, ids with trimmed characters, a blank id.
IdPool == { <<"d", "u", "p">>, <<"d", "u", "p", "-", "2">>, <<"d", "u", "p", "-", "3">>,
            <<"a", "/", "b">>, <<"a", " ", "b">>, <<".", "d", "u", "p", ".">>, <<" ">> }

\* the existence test left out
refusesOverwrite_never(ovw, filename, fs) == FALSE

\* if !opts.OverwriteExisting { if _, err := os.Stat(outPath); err == nil { return ... already exists } }
refusesOverwrite(ovw, filename, fs) == ~ovw /\ filename \in DOMAIN fs

\* a conversation without an id skipped, the run going on
onElementError_skipMissingID(err) ==
    IF err = "missing conversation_id/id" THEN "running" ELSE err

\* simplified, id, err := simplifyConversation(raw); if err != nil { return err }
onElementError(err) == err

SplitInit ==
    /\ overwriteExisting \in BOOLEAN
    /\ splitCtxDone = FALSE
    /\ seen = <<>>
    /\ assigned = <<>>
    /\ files \in { <<>>, [n \in {outFilename(<<"d", "u", "p">>, 0)} |-> 0] }
    /\ threadsWritten = 0
    /\ archiveLen \in 0..MaxElems
    /\ decoded = 0
    /\ splitResult = "running"
    /\ ChunkIdle /\ LinIdle /\ PoolIdle /\ BatchIdle /\ RollIdle /\ ThreadIdle /\ RerunIdle /\ StartIdle /\ ItemIdle /\ AtomIdle /\ RetryIdle /\ MsgIdle /\ ResumeIdle

\* the caller's context is cancelled while the run is going on
SplitCancel ==
    /\ splitResult = "running"
    /\ ~splitCtxDone
    /\ splitCtxDone' = TRUE
    /\ UNCHANGED <<overwriteExisting, seen, assigned, files, threadsWritten, archiveLen, decoded,
                   splitResult>>
    /\ UNCHANGED <<chunkVars, linVars, poolVars, batchVars, rollVars, threadVars, rerunVars, startVars, itemVars, atomVars, retryVars, msgVars, resumeVars>>

\* One iteration of the loop of splitArrayFromOpen on the next array element.
\* id: the element's conversation_id/id ("" when both are missing);
\* linearizeOK: linearizeMessages succeeds on its mapping; writeOK: writeFileAtomic succeeds.
SplitElement(id, linearizeOK, writeOK) ==
    /\ splitResult = "running"
    /\ decoded < archiveLen
    /\ decoded' = IF splitCtxDone THEN decoded ELSE decoded + 1
    /\ IF splitCtxDone THEN
          /\ splitResult' = "context canceled"
          /\ UNCHANGED <<seen, assigned, files, threadsWritten>>
       ELSE IF id = <<>> THEN
          /\ splitResult' = onElementError("missing conversation_id/id")
          /\ UNCHANGED <<seen, assigned, files, threadsWritten>>
       ELSE IF ~linearizeOK THEN
          /\ splitResult' = onElementError("linearize messages")
          /\ UNCHANGED <<seen, assigned, files, threadsWritten>>
       ELSE
          LET sbase == sanitizeFilenameComponent(id)
              base == IF sbase = <<>> THEN <<"t", "h", "r", "e", "a", "d">> ELSE sbase
              seenCount == seenCountOf(seen, base)
              filename == outFilename(base, seenCount)
          IN /\ seen' = [b \in DOMAIN seen \cup {base} |->
                            IF b = base THEN seenCount + 1 ELSE seen[b]]
             /\ assigned' = Append(assigned, filename)
             /\ IF refusesOverwrite(overwriteExisting, filename, files) THEN
                   /\ splitResult' = "output file already exists"
                   /\ UNCHANGED <<files, threadsWritten>>
                ELSE IF ~writeOK THEN
                   /\ splitResult' = "write output"
                   /\ UNCHANGED <<files, threadsWritten>>
                ELSE
                   /\ files' = [n \in DOMAIN files \cup {filename} |->
                                   IF n = filename THEN Len(assigned) + 1 ELSE files[n]]
                   /\ threadsWritten' = threadsWritten + 1
                   /\ UNCHANGED splitResult
    /\ UNCHANGED <<overwriteExisting, splitCtxDone, archiveLen>>
    /\ UNCHANGED <<chunkVars, linVars, poolVars, batchVars, rollVars, threadVars, rerunVars, startVars, itemVars, atomVars, retryVars, msgVars, resumeVars>>

SplitNextElement ==
    \E id \in IdPool \cup {<<>>}, linearizeOK \in BOOLEAN, writeOK \in BOOLEAN :
        SplitElement(id, linearizeOK, writeOK)

\* dec.More() is false: the array is exhausted and the run returns nil
SplitFinish ==
    /\ splitResult = "running"
    /\ decoded = archiveLen
    /\ splitResult' = "ok"
    /\ UNCHANGED <<overwriteExisting, splitCtxDone, seen, assigned, files, threadsWritten,
                   archiveLen, decoded>>
    /\ UNCHANGED <<chunkVars, linVars, poolVars, batchVars, rollVars, threadVars, rerunVars, startVars, itemVars, atomVars, retryVars, msgVars, resumeVars>>

SplitNext == SplitCancel \/ SplitNextElement \/ SplitFinish

SpecSplit == SplitInit /\ [][SplitNext]_vars

\* C3: within one run no two conversation elements are assigned the same
\* output file name, so each output path has exactly one writer.
C3_OutputNamesUnique ==
    \A i, j \in DOMAIN assigned : i # j => assigned[i] # assigned[j]

\* C21: with overwrite not permitted, when the splitter reaches a conversation
\* whose output file already exists, the run returns the "output file already
\* exists" error (the message carries the path just computed) and the output
\* directory, the existing file's content included, is left as it was.
C21_ExistingOutputRefused ==
    [][(/\ ~overwriteExisting
        /\ Len(assigned') = Len(assigned) + 1
        /\ assigned'[Len(assigned')] \in DOMAIN files)
       => (/\ splitResult' = "output file already exists"
           /\ files' = files
           /\ threadsWritten' = threadsWritten)]_vars

\* C21 witness: a run that had already written a conversation stopped on the
\* file an earlier run had left.
C21_Witness ==
    /\ ~overwriteExisting
    /\ splitResult = "output file already exists"
    /\ threadsWritten >= 1
    /\ assigned[Len(assigned)] \in DOMAIN files
    /\ files[assigned[Len(assigned)]] = 0

\* The errors simplifyConversation returns for one conversation.
StructuralErrors == {"missing conversation_id/id", "linearize messages"}

----------------------------------------------------------------------------
(* linearizeMessages *)
\* A node's message: absent (nil), or present with a creation time
\* (0 also stands for a missing create_time, which pickBestLeaf reads as 0.0).
NodeMessages ==
    {[present |-> FALSE, createTime |-> 0]} \cup [present : {TRUE}, createTime : 0..1]

\* Parent pointers: 0 (nil or ""), a node id, or MaxNodes + 1, an id that is in no mapping.
ParentVals == 0..(MaxNodes + 1)

\* len(n.Children) == 0; the children lists agree with the parent pointers
childless(mp, id) == \A m \in DOMAIN mp : mp[m].parent # id

\* the body of the loop of pickBestLeaf over the map entries in iteration order
RECURSIVE pickBestLeafLoop(_, _, _, _, _)
pickBestLeafLoop(mp, order, bestID, bestTime, hasBest) ==
    IF order = <<>> THEN bestID
    ELSE LET id == Head(order)
             n == mp[id]
         IN IF ~childless(mp, id) \/ ~n.message.present
            THEN pickBestLeafLoop(mp, Tail(order), bestID, bestTime, hasBest)
            ELSE IF ~hasBest \/ n.message.createTime > bestTime
                 THEN pickBestLeafLoop(mp, Tail(order), id, n.message.createTime, TRUE)
                 ELSE pickBestLeafLoop(mp, Tail(order), bestID, bestTime, hasBest)

\* pickBestLeaf for one iteration order of the map
pickBestLeaf(mp, order) == pickBestLeafLoop(mp, order, 0, 0, FALSE)

\* the iteration orders range over a Go map can take
MapOrders(mp) ==
    {o \in [1..Cardinality(DOMAIN mp) -> DOMAIN mp] :
        \A i, j \in DOMAIN o : i # j => o[i] # o[j]}

\* the test "_, ok := visited[start]; ok" left out
isVisited_never(vis, id) == FALSE

\* _, ok := visited[start]
isVisited(vis, id) == id \in vis

Reverse(s) == [i \in 1..Len(s) |-> s[Len(s) + 1 - i]]

\* a ceiling one short of the number of nodes
stepCeiling_short(mp) == Cardinality(DOMAIN mp) - 1

\* for i := 0; i < len(mapping)+5; i++
stepCeiling(mp) == Cardinality(DOMAIN mp) + 5

LinInit ==
    /\ \E n \in 0..MaxNodes :
          mapping \in [1..n -> [parent : ParentVals, message : NodeMessages]]
    /\ currentNode \in ParentVals
    /\ lstart = 0 /\ linFirst = 0
    /\ visited = {} /\ reversed = <<>> /\ dropped = {} /\ li = 0 /\ linMsgs = <<>>
    /\ linResult = "init"
    /\ ChunkIdle /\ SplitIdle /\ PoolIdle /\ BatchIdle /\ RollIdle /\ ThreadIdle /\ RerunIdle /\ StartIdle /\ ItemIdle /\ AtomIdle /\ RetryIdle /\ MsgIdle /\ ResumeIdle

\* entry of linearizeMessages up to the loop: empty mapping, choice of start
LinBegin ==
    /\ linResult = "init"
    /\ IF Cardinality(DOMAIN mapping) = 0 THEN
          /\ linResult' = "ok"
          /\ UNCHANGED <<lstart, linFirst>>
       ELSE IF currentNode # 0 THEN
          /\ lstart' = currentNode
          /\ linFirst' = currentNode
          /\ linResult' = "walking"
       ELSE \E order \in MapOrders(mapping) :
          LET s == pickBestLeaf(mapping, order) IN
          /\ lstart' = s
          /\ linFirst' = s
          /\ linResult' = IF s = 0 THEN "no current_node and no leaf node found" ELSE "walking"
    /\ UNCHANGED <<mapping, currentNode, visited, reversed, dropped, li, linMsgs>>
    /\ UNCHANGED <<chunkVars, splitVars, poolVars, batchVars, rollVars, threadVars, rerunVars, startVars, itemVars, atomVars, retryVars, msgVars, resumeVars>>

\* one evaluation of the loop condition and, if it holds, the loop body;
\* keep: the verdict of simplifyMessage on the node's message, if it has one
LinIteration(keep) ==
    /\ linResult = "walking"
    /\ IF ~(li < stepCeiling(mapping)) THEN
          \* the step ceiling ends the loop: reverse and return
          /\ linMsgs' = Reverse(reversed)
          /\ linResult' = "ok"
          /\ UNCHANGED <<lstart, visited, reversed, dropped, li>>
       ELSE IF lstart \notin DOMAIN mapping THEN
          /\ linResult' = "missing node"
          /\ UNCHANGED <<lstart, visited, reversed, dropped, li, linMsgs>>
       ELSE IF isVisited(visited, lstart) THEN
          /\ linResult' = "cycle detected"
          /\ UNCHANGED <<lstart, visited, reversed, dropped, li, linMsgs>>
       ELSE
          LET n == mapping[lstart]
              rev == IF n.message.present /\ keep
                     THEN Append(reversed, lstart) ELSE reversed
          IN /\ visited' = visited \cup {lstart}
             /\ reversed' = rev
             /\ dropped' = IF n.message.present /\ ~keep
                           THEN dropped \cup {lstart} ELSE dropped
             /\ IF n.parent = 0 THEN
                   \* break; reverse and return
                   /\ linMsgs' = Reverse(rev)
                   /\ linResult' = "ok"
                   /\ UNCHANGED <<lstart, li>>
                ELSE
                   /\ lstart' = n.parent
                   /\ li' = li + 1
                   /\ UNCHANGED <<linMsgs, linResult>>
    /\ UNCHANGED <<mapping, currentNode, linFirst>>
    /\ UNCHANGED <<chunkVars, splitVars, poolVars, batchVars, rollVars, threadVars, rerunVars, startVars, itemVars, atomVars, retryVars, msgVars, resumeVars>>

LinStep == \E keep \in BOOLEAN : LinIteration(keep)

LinNext == LinBegin \/ LinStep

SpecLin == LinInit /\ [][LinNext]_vars

\* The parent chain from node id comes back to a node it has passed
\* (fuel: a chain without a repeat has at most one step per mapping entry).
RECURSIVE ChainRevisits(_, _, _)
ChainRevisits(mp, id, passed) ==
    IF id \notin DOMAIN mp THEN FALSE
    ELSE IF id \in passed THEN TRUE
    ELSE IF mp[id].parent = 0 THEN FALSE
    ELSE ChainRevisits(mp, mp[id].parent, passed \cup {id})

\* C4: linearizeMessages terminates (every iteration that does not return
\* consumes a node not visited before, so the loop body runs at most once per
\* mapping entry), and whenever the parent chain from the start node revisits
\* a node it returns the cycle error and no messages.
C4_CycleDetectedAndTerminates ==
    /\ linResult = "walking" => (li = Cardinality(visited) /\ li <= Cardinality(DOMAIN mapping))
    /\ (linResult \notin {"init", "walking", "idle"} /\ ChainRevisits(mapping, linFirst, {}))
          => (linResult = "cycle detected" /\ linMsgs = <<>>)

\* C4 witness: a walk over a chain that revisits a node (here a node that is
\* its own parent, with a message) has returned.
C4_Witness ==
    /\ linResult \notin {"init", "walking", "idle"}
    /\ linFirst \in DOMAIN mapping
    /\ mapping[linFirst].parent = linFirst
    /\ mapping[linFirst].message.present
    /\ linFirst \notin dropped

\* The mapping is one parent chain without branching: exactly one root, every
\* other parent is a node of the mapping, no node has two children, and no
\* parent chain revisits a node.
SimpleChain(mp) ==
    /\ Cardinality({id \in DOMAIN mp : mp[id].parent = 0}) = 1
    /\ \A id \in DOMAIN mp : mp[id].parent \in DOMAIN mp \cup {0}
    /\ \A a, b \in DOMAIN mp : (a # b /\ mp[a].parent # 0) => mp[a].parent # mp[b].parent
    /\ \A id \in DOMAIN mp : ~ChainRevisits(mp, id, {})

\* the last node of a simple chain
ChainLeaf(mp) == CHOOSE id \in DOMAIN mp : childless(mp, id)

\* the nodes from the root down to node id
RECURSIVE RootTo(_, _)
RootTo(mp, id) ==
    IF mp[id].parent = 0 THEN <<id>> ELSE Append(RootTo(mp, mp[id].parent), id)

\* the subsequence of s whose elements are in set S
RECURSIVE Restrict(_, _)
Restrict(s, S) ==
    IF s = <<>> THEN <<>>
    ELSE IF Head(s) \in S THEN <<Head(s)>> \o Restrict(Tail(s), S)
    ELSE Restrict(Tail(s), S)

\* C15: for a simple parent chain with current_node absent or the chain's
\* last node, linearizeMessages succeeds and returns exactly one message per
\* node that has a message the noise filter keeps, ordered root to leaf.
C15_SimpleChainLinearizes ==
    (/\ linResult \notin {"idle", "init", "walking"}
     /\ SimpleChain(mapping)
     /\ currentNode \in {0, ChainLeaf(mapping)}) =>
        /\ linResult = "ok"
        /\ linMsgs = Restrict(RootTo(mapping, ChainLeaf(mapping)),
                              {id \in DOMAIN mapping :
                                  mapping[id].message.present /\ id \notin dropped})

\* C30: whenever linearizeMessages returns without error for a non-empty node
\* map, the walk ended at a visited node whose parent is null or empty; the
\* step ceiling of node count plus 5 was not what stopped it.
C30_WalkEndsAtRoot ==
    (linResult = "ok" /\ DOMAIN mapping # {}) =>
        /\ lstart \in DOMAIN mapping
        /\ lstart \in visited
        /\ mapping[lstart].parent = 0
        /\ li < stepCeiling(mapping)

\* C30 witness: a walk over every node of a three-node map has ended at the root.
C30_Witness ==
    /\ linResult = "ok"
    /\ Cardinality(DOMAIN mapping) = 3
    /\ Cardinality(visited) = 3
    /\ mapping[lstart].parent = 0

----------------------------------------------------------------------------
(* Two runs of SplitConversationArchive over the same conversation, with     *)
(* overwrite enabled: each run linearizes the conversation again and writes  *)
(* the result over the conversation's file.                                  *)
TwiceInit ==
    /\ \E n \in 0..MaxNodes :
          mapping \in [1..n -> [parent : ParentVals, message : NodeMessages]]
    /\ currentNode \in ParentVals
    /\ lstart = 0 /\ linFirst = 0
    /\ visited = {} /\ reversed = <<>> /\ dropped = {} /\ li = 0 /\ linMsgs = <<>>
    /\ linResult = "init"
    /\ runNo = 1
    /\ firstResult = "" /\ firstMsgs = <<>> /\ firstVisited = {} /\ firstDropped = {}
    /\ ChunkIdle /\ SplitIdle /\ PoolIdle /\ BatchIdle /\ RollIdle /\ ThreadIdle /\ StartIdle /\ ItemIdle /\ AtomIdle /\ RetryIdle /\ MsgIdle /\ ResumeIdle

\* simplifyMessage is a function of the message: in the second run it gives
\* a node's message the verdict it gave in the first.
sameVerdict(keep) ==
    (runNo = 2 /\ lstart \in firstVisited) => (keep = (lstart \notin firstDropped))

TwiceStep == \E keep \in BOOLEAN : sameVerdict(keep) /\ LinIteration(keep)

\* The first run has returned; the second run starts on the same input.
SecondRun ==
    /\ runNo = 1
    /\ linResult \notin {"idle", "init", "walking"}
    /\ firstResult' = linResult
    /\ firstMsgs' = linMsgs
    /\ firstVisited' = visited
    /\ firstDropped' = dropped
    /\ runNo' = 2
    /\ lstart' = 0 /\ linFirst' = 0
    /\ visited' = {} /\ reversed' = <<>> /\ dropped' = {} /\ li' = 0 /\ linMsgs' = <<>>
    /\ linResult' = "init"
    /\ UNCHANGED <<mapping, currentNode>>
    /\ UNCHANGED <<chunkVars, splitVars, poolVars, batchVars, rollVars, threadVars, startVars, itemVars, atomVars, retryVars, msgVars, resumeVars>>

TwiceNext == LinBegin \/ TwiceStep \/ SecondRun

SpecTwice == TwiceInit /\ [][TwiceNext]_vars

\* C16: two runs on identical input produce the same result for the
\* conversation: the same outcome and the same message list, also when
\* current_node is absent and leaves have equal or missing creation times.
C16_SecondRunSameOutput ==
    (runNo = 2 /\ linResult \notin {"idle", "init", "walking"}) =>
        /\ linResult = firstResult
        /\ linMsgs = firstMsgs


----------------------------------------------------------------------------
(* forEachThreadIDConcurrent *)
\* capacity one larger than the limit
semCapacity_plusone(c) == IF c <= 0 THEN 2 ELSE c + 1

\* if concurrency <= 0 { concurrency = 1 }; sem := make(chan struct{}, concurrency)
semCapacity(c) == IF c <= 0 THEN 1 ELSE c

\* an unbuffered error channel
errChCapacity_unbuffered(ids) == 0

\* errCh := make(chan error, len(threadIDs))
errChCapacity(ids) == Cardinality(ids)

PoolInit ==
    /\ concurrency \in (-1)..MaxConc
    /\ \E n \in 0..MaxItems : threadIDs = 1..n
    /\ spawned = 0
    /\ wpc = [w \in threadIDs |-> "unspawned"]
    /\ sem = 0
    /\ errCh = <<>>
    /\ ctxErr = ""
    /\ invoked = {}
    /\ poolResult = "running"
    /\ ChunkIdle /\ SplitIdle /\ LinIdle /\ BatchIdle /\ RollIdle /\ ThreadIdle /\ RerunIdle /\ StartIdle /\ ItemIdle /\ AtomIdle /\ RetryIdle /\ MsgIdle /\ ResumeIdle

\* the caller's context is cancelled
ParentCancel ==
    /\ poolResult = "running"
    /\ ctxErr = ""
    /\ ctxErr' = "canceled"
    /\ UNCHANGED <<concurrency, threadIDs, spawned, wpc, sem, errCh, invoked, poolResult>>
    /\ UNCHANGED <<chunkVars, splitVars, linVars, batchVars, rollVars, threadVars, rerunVars, startVars, itemVars, atomVars, retryVars, msgVars, resumeVars>>

\* the caller's context passes its deadline
ParentDeadline ==
    /\ poolResult = "running"
    /\ ctxErr = ""
    /\ ctxErr' = "deadline"
    /\ UNCHANGED <<concurrency, threadIDs, spawned, wpc, sem, errCh, invoked, poolResult>>
    /\ UNCHANGED <<chunkVars, splitVars, linVars, batchVars, rollVars, threadVars, rerunVars, startVars, itemVars, atomVars, retryVars, msgVars, resumeVars>>

\* one iteration of the spawning loop: wg.Add(1); go func() {...}()
Spawn ==
    /\ poolResult = "running"
    /\ spawned < Cardinality(threadIDs)
    /\ spawned' = spawned + 1
    /\ wpc' = [wpc EXCEPT ![spawned + 1] = "select"]
    /\ UNCHANGED <<concurrency, threadIDs, sem, errCh, ctxErr, invoked, poolResult>>
    /\ UNCHANGED <<chunkVars, splitVars, linVars, batchVars, rollVars, threadVars, rerunVars, startVars, itemVars, atomVars, retryVars, msgVars, resumeVars>>

\* select case sem <- struct{}{}: the slot is taken and fn(ctx, threadID) is invoked
AcquireAndInvoke(w) ==
    /\ wpc[w] = "select"
    /\ sem < semCapacity(concurrency)
    /\ sem' = sem + 1
    /\ wpc' = [wpc EXCEPT ![w] = "infn"]
    /\ invoked' = invoked \cup {w}
    /\ UNCHANGED <<concurrency, threadIDs, spawned, errCh, ctxErr, poolResult>>
    /\ UNCHANGED <<chunkVars, splitVars, linVars, batchVars, rollVars, threadVars, rerunVars, startVars, itemVars, atomVars, retryVars, msgVars, resumeVars>>

\* select case <-ctx.Done(): return (wg.Done runs)
GiveUp(w) ==
    /\ wpc[w] = "select"
    /\ ctxErr # ""
    /\ wpc' = [wpc EXCEPT ![w] = "done"]
    /\ UNCHANGED <<concurrency, threadIDs, spawned, sem, errCh, ctxErr, invoked, poolResult>>
    /\ UNCHANGED <<chunkVars, splitVars, linVars, batchVars, rollVars, threadVars, rerunVars, startVars, itemVars, atomVars, retryVars, msgVars, resumeVars>>

\* fn returns nil
FnReturnsNil(w) ==
    /\ wpc[w] = "infn"
    /\ wpc' = [wpc EXCEPT ![w] = "release"]
    /\ UNCHANGED <<concurrency, threadIDs, spawned, sem, errCh, ctxErr, invoked, poolResult>>
    /\ UNCHANGED <<chunkVars, splitVars, linVars, batchVars, rollVars, threadVars, rerunVars, startVars, itemVars, atomVars, retryVars, msgVars, resumeVars>>

\* fn returns an error
FnReturnsErr(w) ==
    /\ wpc[w] = "infn"
    /\ wpc' = [wpc EXCEPT ![w] = "failed"]
    /\ UNCHANGED <<concurrency, threadIDs, spawned, sem, errCh, ctxErr, invoked, poolResult>>
    /\ UNCHANGED <<chunkVars, splitVars, linVars, batchVars, rollVars, threadVars, rerunVars, startVars, itemVars, atomVars, retryVars, msgVars, resumeVars>>

\* errCh <- err; cancel(); return
ReportAndCancel(w) ==
    /\ wpc[w] = "failed"
    /\ Len(errCh) < errChCapacity(threadIDs)
    /\ errCh' = Append(errCh, w)
    /\ ctxErr' = IF ctxErr = "" THEN "canceled" ELSE ctxErr
    /\ wpc' = [wpc EXCEPT ![w] = "release"]
    /\ UNCHANGED <<concurrency, threadIDs, spawned, sem, invoked, poolResult>>
    /\ UNCHANGED <<chunkVars, splitVars, linVars, batchVars, rollVars, threadVars, rerunVars, startVars, itemVars, atomVars, retryVars, msgVars, resumeVars>>

\* deferred <-sem, then deferred wg.Done()
Release(w) ==
    /\ wpc[w] = "release"
    /\ sem' = sem - 1
    /\ wpc' = [wpc EXCEPT ![w] = "done"]
    /\ UNCHANGED <<concurrency, threadIDs, spawned, errCh, ctxErr, invoked, poolResult>>
    /\ UNCHANGED <<chunkVars, splitVars, linVars, batchVars, rollVars, threadVars, rerunVars, startVars, itemVars, atomVars, retryVars, msgVars, resumeVars>>

\* wg.Wait() returns; close(errCh); first error, else a non-Canceled ctx.Err(), else nil
PoolReturn ==
    /\ poolResult = "running"
    /\ spawned = Cardinality(threadIDs)
    /\ \A w \in threadIDs : wpc[w] = "done"
    /\ poolResult' = IF Len(errCh) > 0 THEN "item error"
                     ELSE IF ctxErr # "" /\ ctxErr # "canceled" THEN "deadline exceeded"
                     ELSE "nil"
    /\ UNCHANGED <<concurrency, threadIDs, spawned, wpc, sem, errCh, ctxErr, invoked>>
    /\ UNCHANGED <<chunkVars, splitVars, linVars, batchVars, rollVars, threadVars, rerunVars, startVars, itemVars, atomVars, retryVars, msgVars, resumeVars>>

PoolNext ==
    \/ ParentCancel
    \/ ParentDeadline
    \/ Spawn
    \/ \E w \in threadIDs : AcquireAndInvoke(w)
    \/ \E w \in threadIDs : GiveUp(w)
    \/ \E w \in threadIDs : FnReturnsNil(w)
    \/ \E w \in threadIDs : FnReturnsErr(w)
    \/ \E w \in threadIDs : ReportAndCancel(w)
    \/ \E w \in threadIDs : Release(w)
    \/ PoolReturn

SpecPool == PoolInit /\ [][PoolNext]_vars

InFlight == {w \in threadIDs : wpc[w] = "infn"}

\* C5: once an item's function has returned an error and the shared context
\* has been cancelled, the per-item function is not invoked for any item that
\* had not yet started.
C5_NoInvocationAfterErrorCancel ==
    [][(Len(errCh) > 0 /\ ctxErr # "") => invoked' = invoked]_vars

\* C6: never more than max(N,1) invocations of the per-item function are in
\* flight at the same time.
C6_InFlightBounded ==
    Cardinality(InFlight) <= (IF concurrency >= 1 THEN concurrency ELSE 1)

\* C6 witness: with limit 2 two invocations are in flight while a third item
\* waits for a slot.
C6_Witness ==
    /\ concurrency = 2
    /\ Cardinality(InFlight) = 2
    /\ \E w \in threadIDs : wpc[w] = "select"

\* One step of the goroutine of item w.
WorkerStep(w) ==
    /\ w \in threadIDs
    /\ \/ AcquireAndInvoke(w) \/ GiveUp(w) \/ FnReturnsNil(w) \/ FnReturnsErr(w)
       \/ ReportAndCancel(w) \/ Release(w)

\* The Go scheduler runs every goroutine that can take a step, and every
\* invocation of fn returns; the caller's cancellation and deadline are free
\* to happen or not.
SpecPoolFair ==
    /\ PoolInit /\ [][PoolNext]_vars
    /\ WF_vars(Spawn)
    /\ \A w \in 1..MaxItems : WF_vars(WorkerStep(w))
    /\ WF_vars(PoolReturn)

\* C27: provided every invocation of the per-item function returns,
\* forEachThreadIDConcurrent returns, whatever the number of items, the limit
\* and the pattern of failures and cancellation: no goroutine stays blocked
\* on the slot semaphore or the error channel, and by then every acquired
\* slot has been released.
C27_PoolReturns ==
    <>(/\ poolResult # "running"
       /\ sem = 0
       /\ \A w \in threadIDs : wpc[w] = "done")

\* C27 witness: the call has returned after two items failed (both errors
\* sent to the error channel) while a third, never invoked, gave up waiting.
C27_Witness ==
    /\ poolResult # "running"
    /\ Len(errCh) = 2
    /\ Cardinality(invoked) = 2
    /\ Cardinality(threadIDs) = 3
    /\ sem = 0

\* C26: forEachThreadIDConcurrent returns nil only if the per-item function
\* was invoked for every thread id and returned nil for each; when the
\* caller's context is cancelled while items still wait for a slot, the
\* result is not nil.
C26_NilOnlyIfAllInvoked ==
    poolResult = "nil" => (invoked = threadIDs /\ errCh = <<>>)

----------------------------------------------------------------------------
(* chunk-summarizer main: batches, workers, glossary merge *)
U1 == <<chunkFiles, batchSize, bConcurrency, resume, glossaryMaxTerms>>

\* if cfg.BatchSize == 0 { cfg.BatchSize = len(chunkFiles) }
effBatchSize == IF batchSize = 0 THEN Cardinality(chunkFiles) ELSE batchSize

\* if cfg.Concurrency == 0 { cfg.Concurrency = 1 }
effConcurrency == IF bConcurrency = 0 THEN 1 ELSE bConcurrency

\* batch := chunkFiles[bstart:bend]
batchItems ==
    {w \in chunkFiles : bstart < w /\ w <= bstart + effBatchSize}

\* glossaryForPrompt: empty for maxTerms == 0, else the first maxTerms entries
glossaryForPrompt(g, maxTerms) ==
    IF maxTerms = 0 \/ Len(g) = 0 THEN <<>>
    ELSE IF maxTerms > 0 /\ Len(g) > maxTerms THEN SubSeq(g, 1, maxTerms)
    ELSE g

\* MergeGlossary for one update: a known term only has its count bumped, a new one is appended
MergeGlossary(g, term) ==
    IF \E i \in DOMAIN g : g[i] = term THEN g ELSE Append(g, term)

\* for u := range updatesCh { MergeGlossary(&glossary, ...) }
RECURSIVE mergeAll(_, _)
mergeAll(g, updates) ==
    IF updates = <<>> THEN g ELSE mergeAll(MergeGlossary(g, Head(updates)), Tail(updates))

\* the join does not wait for the workers
wgWaitReturns_nowait(ws) == TRUE

\* wg.Wait() returns once every goroutine of the batch has called wg.Done()
wgWaitReturns(ws) == \A w \in ws : bwpc[w] = "done"

BatchInit ==
    /\ \E n \in 1..MaxItems : chunkFiles = 1..n
    /\ batchSize \in 0..MaxItems
    /\ bConcurrency \in 0..MaxConc
    /\ resume \in BOOLEAN
    /\ glossaryMaxTerms \in {0, MaxItems}
    /\ bstart = 0 /\ bspawned = 0
    /\ bpc = "loop"
    /\ bwpc = [w \in chunkFiles |-> "unspawned"]
    /\ bsem = 0 /\ bErrCh = <<>> /\ updatesCh = <<>>
    /\ glossary = <<>> /\ savedGlossary = <<>> /\ glossaryExcerpt = <<>>
    /\ excerptSeen = [w \in chunkFiles |-> <<0>>]
    /\ failedItems = {} /\ reported = {}
    /\ bctxDone = FALSE
    /\ ChunkIdle /\ SplitIdle /\ LinIdle /\ PoolIdle /\ RollIdle /\ ThreadIdle /\ RerunIdle /\ StartIdle /\ ItemIdle /\ AtomIdle /\ RetryIdle /\ MsgIdle /\ ResumeIdle

\* SIGINT/SIGTERM cancels the context
BSignal ==
    /\ bpc \in {"loop", "spawning", "wait", "merge", "save"}
    /\ ~bctxDone
    /\ bctxDone' = TRUE
    /\ UNCHANGED <<U1, bstart, bspawned, bpc, bwpc, bsem, bErrCh, updatesCh, glossary,
                   savedGlossary, glossaryExcerpt, excerptSeen, failedItems, reported>>
    /\ UNCHANGED <<chunkVars, splitVars, linVars, poolVars, rollVars, threadVars, rerunVars, startVars, itemVars, atomVars, retryVars, msgVars, resumeVars>>

\* head of a batch iteration: excerpt, fresh channels
BatchBegin ==
    /\ bpc = "loop"
    /\ bstart < Cardinality(chunkFiles)
    /\ glossaryExcerpt' = glossaryForPrompt(glossary, glossaryMaxTerms)
    /\ bsem' = 0 /\ bErrCh' = <<>> /\ updatesCh' = <<>> /\ bspawned' = 0
    /\ bpc' = "spawning"
    /\ UNCHANGED <<U1, bstart, bwpc, glossary, savedGlossary, excerptSeen,
                   failedItems, reported, bctxDone>>
    /\ UNCHANGED <<chunkVars, splitVars, linVars, poolVars, rollVars, threadVars, rerunVars, startVars, itemVars, atomVars, retryVars, msgVars, resumeVars>>

\* wg.Add(1); go func(chunkPath) {...}(chunkPath) for the next file of the batch
BSpawn ==
    /\ bpc = "spawning"
    /\ LET w == bstart + bspawned + 1 IN
         /\ bwpc' = [bwpc EXCEPT ![w] = "sem"]
         /\ bspawned' = bspawned + 1
         /\ bpc' = IF bspawned + 1 = Cardinality(batchItems) THEN "wait" ELSE "spawning"
    /\ UNCHANGED <<U1, bstart, bsem, bErrCh, updatesCh, glossary, savedGlossary,
                   glossaryExcerpt, excerptSeen, failedItems, reported, bctxDone>>
    /\ UNCHANGED <<chunkVars, splitVars, linVars, poolVars, rollVars, threadVars, rerunVars, startVars, itemVars, atomVars, retryVars, msgVars, resumeVars>>

\* sem <- struct{}{}
WAcquire(w) ==
    /\ bwpc[w] = "sem"
    /\ bsem < effConcurrency
    /\ bsem' = bsem + 1
    /\ bwpc' = [bwpc EXCEPT ![w] = "check"]
    /\ UNCHANGED <<U1, bstart, bspawned, bpc, bErrCh, updatesCh, glossary, savedGlossary,
                   glossaryExcerpt, excerptSeen, failedItems, reported, bctxDone>>
    /\ UNCHANGED <<chunkVars, splitVars, linVars, poolVars, rollVars, threadVars, rerunVars, startVars, itemVars, atomVars, retryVars, msgVars, resumeVars>>

\* context check, resume check, readChunkFile.
\* outputsExist: both summary files exist; readOK: the chunk file reads and parses
WBegin(w, outputsExist, readOK) ==
    /\ bwpc[w] = "check"
    /\ IF bctxDone THEN
          /\ bErrCh' = Append(bErrCh, w)
          /\ failedItems' = failedItems \cup {w}
          /\ bwpc' = [bwpc EXCEPT ![w] = "release"]
       ELSE IF resume /\ outputsExist THEN
          /\ bwpc' = [bwpc EXCEPT ![w] = "release"]
          /\ UNCHANGED <<bErrCh, failedItems>>
       ELSE IF ~readOK THEN
          \* if err != nil { return }
          /\ failedItems' = failedItems \cup {w}
          /\ bwpc' = [bwpc EXCEPT ![w] = "release"]
          /\ UNCHANGED bErrCh
       ELSE
          /\ bwpc' = [bwpc EXCEPT ![w] = "summarize"]
          /\ UNCHANGED <<bErrCh, failedItems>>
    /\ UNCHANGED <<U1, bstart, bspawned, bpc, bsem, updatesCh, glossary, savedGlossary,
                   glossaryExcerpt, excerptSeen, reported, bctxDone>>
    /\ UNCHANGED <<chunkVars, splitVars, linVars, poolVars, rollVars, threadVars, rerunVars, startVars, itemVars, atomVars, retryVars, msgVars, resumeVars>>

\* SummarizeChunkWithOptions (and its one retry with a smaller prompt), given glossaryExcerpt
WSummarize(w, ok) ==
    /\ bwpc[w] = "summarize"
    /\ excerptSeen' = [excerptSeen EXCEPT ![w] = glossaryExcerpt]
    /\ IF ok THEN
          /\ bwpc' = [bwpc EXCEPT ![w] = "sentiment"]
          /\ UNCHANGED <<bErrCh, failedItems>>
       ELSE
          /\ bErrCh' = Append(bErrCh, w)
          /\ failedItems' = failedItems \cup {w}
          /\ bwpc' = [bwpc EXCEPT ![w] = "release"]
    /\ UNCHANGED <<U1, bstart, bspawned, bpc, bsem, updatesCh, glossary, savedGlossary,
                   glossaryExcerpt, reported, bctxDone>>
    /\ UNCHANGED <<chunkVars, splitVars, linVars, poolVars, rollVars, threadVars, rerunVars, startVars, itemVars, atomVars, retryVars, msgVars, resumeVars>>

\* SummarizeChunkSentimentWithOptions (and its one retry)
WSentiment(w, ok) ==
    /\ bwpc[w] = "sentiment"
    /\ IF ok THEN
          /\ bwpc' = [bwpc EXCEPT ![w] = "write"]
          /\ UNCHANGED <<bErrCh, failedItems>>
       ELSE
          /\ bErrCh' = Append(bErrCh, w)
          /\ failedItems' = failedItems \cup {w}
          /\ bwpc' = [bwpc EXCEPT ![w] = "release"]
    /\ UNCHANGED <<U1, bstart, bspawned, bpc, bsem, updatesCh, glossary, savedGlossary,
                   glossaryExcerpt, excerptSeen, reported, bctxDone>>
    /\ UNCHANGED <<chunkVars, splitVars, linVars, poolVars, rollVars, threadVars, rerunVars, startVars, itemVars, atomVars, retryVars, msgVars, resumeVars>>

\* an "already exists" error is let through when resuming
writeFails(outcome) == outcome = "ioerr" \/ (outcome = "exists" /\ ~resume)

\* writeSummaryFile, writeSentimentSummaryFile, updatesCh <- update.
\* semanticOutcome, sentimentOutcome: "ok", "exists" or "ioerr"
WWrite(w, semanticOutcome, sentimentOutcome) ==
    /\ bwpc[w] = "write"
    /\ IF writeFails(semanticOutcome) \/ writeFails(sentimentOutcome) THEN
          /\ bErrCh' = Append(bErrCh, w)
          /\ failedItems' = failedItems \cup {w}
          /\ UNCHANGED updatesCh
       ELSE
          /\ updatesCh' = Append(updatesCh, w)
          /\ UNCHANGED <<bErrCh, failedItems>>
    /\ bwpc' = [bwpc EXCEPT ![w] = "release"]
    /\ UNCHANGED <<U1, bstart, bspawned, bpc, bsem, glossary, savedGlossary,
                   glossaryExcerpt, excerptSeen, reported, bctxDone>>
    /\ UNCHANGED <<chunkVars, splitVars, linVars, poolVars, rollVars, threadVars, rerunVars, startVars, itemVars, atomVars, retryVars, msgVars, resumeVars>>

\* deferred <-sem and wg.Done()
WRelease(w) ==
    /\ bwpc[w] = "release"
    /\ bsem' = bsem - 1
    /\ bwpc' = [bwpc EXCEPT ![w] = "done"]
    /\ UNCHANGED <<U1, bstart, bspawned, bpc, bErrCh, updatesCh, glossary, savedGlossary,
                   glossaryExcerpt, excerptSeen, failedItems, reported, bctxDone>>
    /\ UNCHANGED <<chunkVars, splitVars, linVars, poolVars, rollVars, threadVars, rerunVars, startVars, itemVars, atomVars, retryVars, msgVars, resumeVars>>

\* wg.Wait(); close both channels; the first error in errCh is printed and the process exits
BJoin ==
    /\ bpc = "wait"
    /\ wgWaitReturns(batchItems)
    /\ IF Len(bErrCh) > 0 THEN
          /\ reported' = reported \cup {bErrCh[1]}
          /\ bpc' = "exit1"
       ELSE
          /\ bpc' = "merge"
          /\ UNCHANGED reported
    /\ UNCHANGED <<U1, bstart, bspawned, bwpc, bsem, bErrCh, updatesCh, glossary, savedGlossary,
                   glossaryExcerpt, excerptSeen, failedItems, bctxDone>>
    /\ UNCHANGED <<chunkVars, splitVars, linVars, poolVars, rollVars, threadVars, rerunVars, startVars, itemVars, atomVars, retryVars, msgVars, resumeVars>>

\* for u := range updatesCh { migration.MergeGlossary(&glossary, ...) }
BMerge ==
    /\ bpc = "merge"
    /\ glossary' = mergeAll(glossary, updatesCh)
    /\ bpc' = "save"
    /\ UNCHANGED <<U1, bstart, bspawned, bwpc, bsem, bErrCh, updatesCh, savedGlossary,
                   glossaryExcerpt, excerptSeen, failedItems, reported, bctxDone>>
    /\ UNCHANGED <<chunkVars, splitVars, linVars, poolVars, rollVars, threadVars, rerunVars, startVars, itemVars, atomVars, retryVars, msgVars, resumeVars>>

\* migration.SaveGlossary; on success the loop goes on with bstart += cfg.BatchSize
BSave(ok) ==
    /\ bpc = "save"
    /\ IF ok THEN
          /\ savedGlossary' = glossary
          /\ bstart' = bstart + effBatchSize
          /\ bpc' = "loop"
       ELSE
          /\ bpc' = "exit1"
          /\ UNCHANGED <<savedGlossary, bstart>>
    /\ UNCHANGED <<U1, bspawned, bwpc, bsem, bErrCh, updatesCh, glossary,
                   glossaryExcerpt, excerptSeen, failedItems, reported, bctxDone>>
    /\ UNCHANGED <<chunkVars, splitVars, linVars, poolVars, rollVars, threadVars, rerunVars, startVars, itemVars, atomVars, retryVars, msgVars, resumeVars>>

\* after the last batch: the final SaveGlossary
BFinish(ok) ==
    /\ bpc = "loop"
    /\ bstart >= Cardinality(chunkFiles)
    /\ IF ok THEN
          /\ savedGlossary' = glossary
          /\ bpc' = "done"
       ELSE
          /\ bpc' = "exit1"
          /\ UNCHANGED savedGlossary
    /\ UNCHANGED <<U1, bstart, bspawned, bwpc, bsem, bErrCh, updatesCh, glossary,
                   glossaryExcerpt, excerptSeen, failedItems, reported, bctxDone>>
    /\ UNCHANGED <<chunkVars, splitVars, linVars, poolVars, rollVars, threadVars, rerunVars, startVars, itemVars, atomVars, retryVars, msgVars, resumeVars>>

WriteOutcomes == {"ok", "exists", "ioerr"}

BatchNext ==
    \/ BSignal
    \/ BatchBegin
    \/ BSpawn
    \/ \E w \in chunkFiles : WAcquire(w)
    \/ \E w \in chunkFiles, outputsExist \in BOOLEAN, readOK \in BOOLEAN : WBegin(w, outputsExist, readOK)
    \/ \E w \in chunkFiles, ok \in BOOLEAN : WSummarize(w, ok)
    \/ \E w \in chunkFiles, ok \in BOOLEAN : WSentiment(w, ok)
    \/ \E w \in chunkFiles, o1 \in WriteOutcomes, o2 \in WriteOutcomes : WWrite(w, o1, o2)
    \/ \E w \in chunkFiles : WRelease(w)
    \/ BJoin
    \/ BMerge
    \/ \E ok \in BOOLEAN : BSave(ok)
    \/ \E ok \in BOOLEAN : BFinish(ok)

SpecBatch == BatchInit /\ [][BatchNext]_vars

\* C7: after all workers of a batch have finished, the error of every item
\* that failed (unreadable chunk file, summarizer error, write error, cancelled
\* context) has been reported; no failure is silently dropped.
C7_EveryFailureReported ==
    bpc \in {"merge", "save", "loop", "exit1", "done"} => failedItems \subseteq reported

\* C8: the glossary is mutated only at batch boundaries: the merge of a
\* batch's additions starts only after every worker of the batch has finished,
\* no worker runs while a merged glossary is unsaved, and all workers of one
\* batch are given the same excerpt, the one of the glossary saved before the batch.
C8_GlossaryOnlyAtBatchBoundaries ==
    /\ bpc \in {"merge", "save"} => \A w \in batchItems : bwpc[w] = "done"
    /\ \A w \in chunkFiles :
          bwpc[w] \notin {"unspawned", "done"} =>
              /\ w \in batchItems
              /\ glossary = savedGlossary
    /\ \A w \in batchItems :
          excerptSeen[w] # <<0>> =>
              excerptSeen[w] = glossaryForPrompt(savedGlossary, glossaryMaxTerms)
    /\ \A w1, w2 \in batchItems :
          (excerptSeen[w1] # <<0>> /\ excerptSeen[w2] # <<0>>) =>
              excerptSeen[w1] = excerptSeen[w2]

\* C8 witness: a worker of a later batch is summarizing with an excerpt that
\* holds the merged additions of both workers of the batch before it.
C8_Witness ==
    /\ bstart > 0
    /\ Len(savedGlossary) >= 2
    /\ \E w \in batchItems :
          /\ bwpc[w] = "sentiment"
          /\ Len(excerptSeen[w]) >= 2


----------------------------------------------------------------------------
(* chunk-summarizer run again with -resume after a run that exited with an  *)
(* error: the summary files and the glossary file are what the first run    *)
(* left on disk.                                                            *)
Range(f) == {f[i] : i \in DOMAIN f}

\* The first run has exited with status 1; the command is started again with
\* -resume: LoadGlossary reads the saved glossary, the batch loop starts over.
BRestart ==
    /\ bRun = 1
    /\ bpc = "exit1"
    /\ bRun' = 2
    /\ onDisk' = Range(glossary) \cup Range(updatesCh)
    /\ resume' = TRUE
    /\ glossary' = savedGlossary
    /\ bstart' = 0 /\ bspawned' = 0
    /\ bpc' = "loop"
    /\ bwpc' = [w \in chunkFiles |-> "unspawned"]
    /\ bsem' = 0 /\ bErrCh' = <<>> /\ updatesCh' = <<>>
    /\ glossaryExcerpt' = <<>>
    /\ excerptSeen' = [w \in chunkFiles |-> <<0>>]
    /\ failedItems' = {} /\ reported' = {}
    /\ bctxDone' = FALSE
    /\ UNCHANGED <<chunkFiles, batchSize, bConcurrency, glossaryMaxTerms, savedGlossary>>
    /\ UNCHANGED <<chunkVars, splitVars, linVars, poolVars, rollVars, threadVars, rerunVars, startVars, itemVars, atomVars, retryVars, msgVars>>

\* fileExists(semanticOut) && fileExists(sentOut) in the resumed run: the
\* files the first run wrote are there.
existsOnDisk(w, outputsExist) == (bRun = 2 /\ w \in onDisk) => outputsExist

ResumedWBegin ==
    \E w \in chunkFiles, outputsExist \in BOOLEAN, readOK \in BOOLEAN :
        existsOnDisk(w, outputsExist) /\ WBegin(w, outputsExist, readOK)

BatchResumeNext ==
    \/ BSignal
    \/ BatchBegin
    \/ BSpawn
    \/ \E w \in chunkFiles : WAcquire(w)
    \/ ResumedWBegin
    \/ \E w \in chunkFiles, ok \in BOOLEAN : WSummarize(w, ok)
    \/ \E w \in chunkFiles, ok \in BOOLEAN : WSentiment(w, ok)
    \/ \E w \in chunkFiles, o1 \in WriteOutcomes, o2 \in WriteOutcomes : WWrite(w, o1, o2)
    \/ \E w \in chunkFiles : WRelease(w)
    \/ BJoin
    \/ BMerge
    \/ \E ok \in BOOLEAN : BSave(ok)
    \/ \E ok \in BOOLEAN : BFinish(ok)
    \/ BRestart

SpecBatchResume == BatchInit /\ [][BatchResumeNext]_vars

\* C28: every chunk whose semantic and sentiment summary files have been
\* written has its glossary additions in the saved glossary, at the latest
\* when a later resumed run has completed, also when another item of the
\* chunk's batch failed.
C28_WrittenChunksMerged ==
    (bRun = 2 /\ bpc = "done") => onDisk \subseteq Range(savedGlossary)

----------------------------------------------------------------------------
(* chunkWindows and writeThreadSummaryWithOptionalSplit *)
\* for start := 0; start < len(in); start += max { out = append(out, in[start:min(start+max, len)]) }
\* the loop stopping before a last window shorter than max
RECURSIVE windowsFrom_droplast(_, _, _)
windowsFrom_droplast(in, max, start) ==
    IF ~(start + max <= Len(in)) THEN <<>>
    ELSE <<SubSeq(in, start + 1, start + max)>> \o windowsFrom_droplast(in, max, start + max)

RECURSIVE windowsFrom(_, _, _)
windowsFrom(in, max, start) ==
    IF ~(start < Len(in)) THEN <<>>
    ELSE LET end == IF start + max > Len(in) THEN Len(in) ELSE start + max
         IN <<SubSeq(in, start + 1, end)>> \o windowsFrom(in, max, end)

chunkWindows(in, max) ==
    IF max <= 0 \/ Len(in) <= max THEN <<in>> ELSE windowsFrom(in, max, 0)

\* the loop over the windows stops after the first one
partsLoopDone_first(i, n) == i >= 1

\* for i, win := range parts: the loop is over once i has passed the last window
partsLoopDone(i, n) == ~(i < n)

R1 == <<summaries, maxChunksPerThread, rOverwrite, rResume>>

RollInit ==
    /\ \E n \in 0..MaxSummaries : summaries = [k \in 1..n |-> k]
    /\ maxChunksPerThread \in (-1)..MaxSummaries
    /\ rOverwrite \in BOOLEAN
    /\ rResume \in BOOLEAN
    /\ partFiles \in SUBSET (1..MaxSummaries)
    /\ parts = <<>> /\ ri = 0 /\ partSummaries = <<>>
    /\ mergeCalls = <<>> /\ rollupCalls = <<>>
    /\ finalWritten = FALSE
    /\ rResult = "start"
    /\ ChunkIdle /\ SplitIdle /\ LinIdle /\ PoolIdle /\ BatchIdle /\ ThreadIdle /\ RerunIdle /\ StartIdle /\ ItemIdle /\ AtomIdle /\ RetryIdle /\ MsgIdle /\ ResumeIdle

\* the thread fits one window: one Rollup call and the final write
RollSingle(rollupOK, writeOK) ==
    /\ rResult = "start"
    /\ (maxChunksPerThread <= 0 \/ Len(summaries) <= maxChunksPerThread)
    /\ rollupCalls' = Append(rollupCalls, summaries)
    /\ IF ~rollupOK THEN
          /\ rResult' = "failed rollup"
          /\ UNCHANGED finalWritten
       ELSE IF ~writeOK THEN
          /\ rResult' = "write final"
          /\ UNCHANGED finalWritten
       ELSE
          /\ finalWritten' = TRUE
          /\ rResult' = "ok"
    /\ UNCHANGED <<R1, partFiles, parts, ri, partSummaries, mergeCalls>>
    /\ UNCHANGED <<chunkVars, splitVars, linVars, poolVars, batchVars, threadVars, rerunVars, startVars, itemVars, atomVars, retryVars, msgVars, resumeVars>>

\* parts := chunkWindows(chunks, cfg.MaxChunksPerThread)
RollSplit ==
    /\ rResult = "start"
    /\ ~(maxChunksPerThread <= 0 \/ Len(summaries) <= maxChunksPerThread)
    /\ parts' = chunkWindows(summaries, maxChunksPerThread)
    /\ ri' = 0
    /\ rResult' = "windows"
    /\ UNCHANGED <<R1, partFiles, partSummaries, mergeCalls, rollupCalls, finalWritten>>
    /\ UNCHANGED <<chunkVars, splitVars, linVars, poolVars, batchVars, threadVars, rerunVars, startVars, itemVars, atomVars, retryVars, msgVars, resumeVars>>

\* one iteration of the loop over parts (part number ri+1).
\* rollupOK: Rollup succeeds; writeOK: the part file write succeeds; readOK: an existing part file reads
RollPart(rollupOK, writeOK, readOK) ==
    /\ rResult = "windows"
    /\ ~partsLoopDone(ri, Len(parts))
    /\ LET partNum == ri + 1
           needPart == rOverwrite \/ partNum \notin partFiles
       IN IF ~needPart /\ ~rResume /\ ~rOverwrite THEN
             /\ rResult' = "thread summary part exists"
             /\ UNCHANGED <<partFiles, ri, partSummaries, rollupCalls>>
          ELSE IF needPart THEN
             /\ rollupCalls' = Append(rollupCalls, parts[partNum])
             /\ IF ~rollupOK THEN
                   /\ rResult' = "failed rollup part"
                   /\ UNCHANGED <<partFiles, ri, partSummaries>>
                ELSE IF ~writeOK THEN
                   /\ rResult' = "write part"
                   /\ UNCHANGED <<partFiles, ri, partSummaries>>
                ELSE
                   /\ partFiles' = partFiles \cup {partNum}
                   /\ partSummaries' = Append(partSummaries, [part |-> partNum, from |-> "rollup"])
                   /\ ri' = ri + 1
                   /\ UNCHANGED rResult
          ELSE
             /\ IF ~readOK THEN
                   /\ rResult' = "read thread summary"
                   /\ UNCHANGED <<ri, partSummaries>>
                ELSE
                   /\ partSummaries' = Append(partSummaries, [part |-> partNum, from |-> "file"])
                   /\ ri' = ri + 1
                   /\ UNCHANGED rResult
             /\ UNCHANGED <<partFiles, rollupCalls>>
    /\ UNCHANGED <<R1, parts, mergeCalls, finalWritten>>
    /\ UNCHANGED <<chunkVars, splitVars, linVars, poolVars, batchVars, threadVars, rerunVars, startVars, itemVars, atomVars, retryVars, msgVars, resumeVars>>

\* after the loop: RollupFromThreadSummaries on partSummaries, then the final write
RollMerge(mergeOK, writeOK) ==
    /\ rResult = "windows"
    /\ partsLoopDone(ri, Len(parts))
    /\ mergeCalls' = Append(mergeCalls, partSummaries)
    /\ IF ~mergeOK THEN
          /\ rResult' = "failed rollup merge"
          /\ UNCHANGED finalWritten
       ELSE IF ~writeOK THEN
          /\ rResult' = "write final"
          /\ UNCHANGED finalWritten
       ELSE
          /\ finalWritten' = TRUE
          /\ rResult' = "ok"
    /\ UNCHANGED <<R1, partFiles, parts, ri, partSummaries, rollupCalls>>
    /\ UNCHANGED <<chunkVars, splitVars, linVars, poolVars, batchVars, threadVars, rerunVars, startVars, itemVars, atomVars, retryVars, msgVars, resumeVars>>

RollNext ==
    \/ \E rollupOK \in BOOLEAN, writeOK \in BOOLEAN : RollSingle(rollupOK, writeOK)
    \/ RollSplit
    \/ \E rollupOK \in BOOLEAN, writeOK \in BOOLEAN, readOK \in BOOLEAN :
          RollPart(rollupOK, writeOK, readOK)
    \/ \E mergeOK \in BOOLEAN, writeOK \in BOOLEAN : RollMerge(mergeOK, writeOK)

SpecRoll == RollInit /\ [][RollNext]_vars

Oversized == maxChunksPerThread > 0 /\ Len(summaries) > maxChunksPerThread

\* number of windows of an oversized thread: ceil(n / max)
NumWindows == (Len(summaries) + maxChunksPerThread - 1) \div maxChunksPerThread

WindowFailures ==
    {"thread summary part exists", "failed rollup part", "write part", "read thread summary"}

\* C9: for a thread with more chunk summaries than the window maximum the
\* second-level merge is invoked only after a partial summary exists for every
\* window (computed or reused), once, with all partials in window order; if a
\* window fails the merge is not invoked and no final summary is written.
C9_MergeIsJoinBarrier ==
    Oversized =>
        /\ Len(mergeCalls) <= 1
        /\ \A c \in 1..Len(mergeCalls) :
              /\ Len(mergeCalls[c]) = NumWindows
              /\ \A k \in 1..NumWindows :
                    /\ mergeCalls[c][k].part = k
                    /\ (mergeCalls[c][k].from = "rollup" =>
                          \E q \in 1..Len(rollupCalls) :
                              rollupCalls[q] = SubSeq(summaries, (k - 1) * maxChunksPerThread + 1,
                                  IF k * maxChunksPerThread > Len(summaries)
                                  THEN Len(summaries) ELSE k * maxChunksPerThread))
        /\ (rResult \in WindowFailures => (mergeCalls = <<>> /\ ~finalWritten))
        /\ (finalWritten => Len(mergeCalls) = 1)

\* C9 witness: a thread of three or more windows was merged from partials of
\* which one was reused from a part file and one was computed.
C9_Witness ==
    /\ Oversized
    /\ rResult = "ok"
    /\ Len(mergeCalls) = 1
    /\ Len(mergeCalls[1]) >= 3
    /\ \E k \in 1..Len(mergeCalls[1]) : mergeCalls[1][k].from = "file"
    /\ \E k \in 1..Len(mergeCalls[1]) : mergeCalls[1][k].from = "rollup"

----------------------------------------------------------------------------
(* Turn segmentation and breakpoint application as a state machine *)
ChunkInit ==
    /\ msgs \in SeqsUpTo(Roles, MaxMsgs)
    /\ breakpoints \in SeqsUpTo(BpVals, MaxBps)
    /\ totalTurns = 0
    /\ turns = <<>> /\ chunks = <<>> /\ applyErr = ""
    /\ normOut = <<>> /\ normErr = FALSE
    /\ cpc = "start"
    /\ SplitIdle /\ LinIdle /\ PoolIdle /\ BatchIdle /\ RollIdle /\ ThreadIdle /\ RerunIdle /\ StartIdle /\ ItemIdle /\ AtomIdle /\ RetryIdle /\ MsgIdle /\ ResumeIdle

\* turns := BuildTurns(thread)
DoBuildTurns ==
    /\ cpc = "start"
    /\ turns' = BuildTurns(msgs)
    /\ cpc' = "turns"
    /\ UNCHANGED <<msgs, breakpoints, totalTurns, chunks, applyErr, normOut, normErr>>
    /\ UNCHANGED <<splitVars, linVars, poolVars, batchVars, rollVars, threadVars, rerunVars, startVars, itemVars, atomVars, retryVars, msgVars, resumeVars>>

\* chunks, err := ApplyTurnBreakpoints(thread, turns, breakpoints)
DoApplyTurnBreakpoints ==
    /\ cpc = "turns"
    /\ LET r == ApplyTurnBreakpoints(msgs, turns, breakpoints) IN
         /\ chunks' = r.chunks
         /\ applyErr' = r.err
    /\ cpc' = "applied"
    /\ UNCHANGED <<msgs, breakpoints, totalTurns, turns, normOut, normErr>>
    /\ UNCHANGED <<splitVars, linVars, poolVars, batchVars, rollVars, threadVars, rerunVars, startVars, itemVars, atomVars, retryVars, msgVars, resumeVars>>

ChunkNext == DoBuildTurns \/ DoApplyTurnBreakpoints

SpecChunk == ChunkInit /\ [][ChunkNext]_vars

\* A direct call normalizeBreakpoints(breakpoints, totalTurns) on arbitrary arguments.
NormInit ==
    /\ msgs = <<>>
    /\ breakpoints \in SeqsUpTo(BpVals, MaxBps)
    /\ totalTurns \in BpVals
    /\ turns = <<>> /\ chunks = <<>> /\ applyErr = ""
    /\ normOut = <<>> /\ normErr = FALSE
    /\ cpc = "start"
    /\ SplitIdle /\ LinIdle /\ PoolIdle /\ BatchIdle /\ RollIdle /\ ThreadIdle /\ RerunIdle /\ StartIdle /\ ItemIdle /\ AtomIdle /\ RetryIdle /\ MsgIdle /\ ResumeIdle

DoNormalize ==
    /\ cpc = "start"
    /\ LET r == normalizeBreakpoints(breakpoints, totalTurns) IN
         /\ normOut' = r.out
         /\ normErr' = r.err
    /\ cpc' = "normalized"
    /\ UNCHANGED <<msgs, breakpoints, totalTurns, turns, chunks, applyErr>>
    /\ UNCHANGED <<splitVars, linVars, poolVars, batchVars, rollVars, threadVars, rerunVars, startVars, itemVars, atomVars, retryVars, msgVars, resumeVars>>

NormNext == DoNormalize

SpecNorm == NormInit /\ [][NormNext]_vars

----------------------------------------------------------------------------
(* fallbackBreakpoints and ChunkThread *)
ThreadRoles == {"user", "assistant"}

\* Values a decider may return: negative, zero, inside, equal to and beyond any turn count.
DecidedVals == -1..(MaxThreadMsgs + 1)

\* for i := targetTurnsPerChunk; i <= totalTurns; ... : the bound included
RECURSIVE fallbackLoop_inclusive(_, _, _, _)
fallbackLoop_inclusive(i, T, K, bps) ==
    IF ~(i <= T) THEN bps ELSE fallbackLoop_inclusive(i + K, T, K, Append(bps, i))

\* for i := targetTurnsPerChunk; i < totalTurns; i += targetTurnsPerChunk { bps = append(bps, i) }
RECURSIVE fallbackLoop(_, _, _, _)
fallbackLoop(i, T, K, bps) ==
    IF ~(i < T) THEN bps ELSE fallbackLoop(i + K, T, K, Append(bps, i))

\* a fallback that never splits
fallbackBreakpoints_none(T, K) == <<>>

fallbackBreakpoints(T, K) ==
    IF K <= 0 \/ T <= K THEN <<>> ELSE fallbackLoop(K, T, K, <<>>)

\* the fallback test taken on the normalized list instead of the raw one
needsFallback_normalized(bps, T) == normalizeBreakpoints(bps, T).out = <<>>

\* if len(breakpoints) == 0
needsFallback(bps, T) == Len(bps) = 0

\* The arguments and the environment of one ChunkThread call.
T1 == <<thread, targetTurnsPerChunk, decided, deciderErr, tOverwrite, fbTotalTurns>>

ThreadInit ==
    /\ thread \in SeqsUpTo(ThreadRoles, MaxThreadMsgs)
    /\ targetTurnsPerChunk \in 0..MaxTarget
    /\ decided \in SeqsUpTo(DecidedVals, MaxDecided)
    /\ deciderErr \in BOOLEAN
    /\ deciderErr => decided = <<>>
    /\ tOverwrite \in BOOLEAN
    /\ fbTotalTurns = 0
    /\ tTurns = <<>> /\ tBreakpoints = <<>> /\ tChunks = <<>> /\ written = <<>>
    /\ tResult = "start"
    /\ ChunkIdle /\ SplitIdle /\ LinIdle /\ PoolIdle /\ BatchIdle /\ RollIdle /\ RerunIdle /\ StartIdle /\ ItemIdle /\ AtomIdle /\ RetryIdle /\ MsgIdle /\ ResumeIdle

\* ChunkThread from its entry up to the return of ApplyTurnBreakpoints.
\* readOK: MkdirAll, ReadFile and Unmarshal all succeed.
ChunkThreadBegin(readOK) ==
    /\ tResult = "start"
    /\ IF targetTurnsPerChunk <= 0 THEN
           /\ tResult' = "targetTurnsPerChunk must be > 0"
           /\ UNCHANGED <<tTurns, tBreakpoints, tChunks>>
       ELSE IF ~readOK THEN
           /\ tResult' = "read thread"
           /\ UNCHANGED <<tTurns, tBreakpoints, tChunks>>
       ELSE LET ts == BuildTurns(thread) IN
           /\ tTurns' = ts
           /\ IF Len(ts) = 0 THEN
                  /\ tResult' = "thread has no messages/turns"
                  /\ UNCHANGED <<tBreakpoints, tChunks>>
              ELSE IF deciderErr THEN
                  /\ tResult' = "decide breakpoints"
                  /\ UNCHANGED <<tBreakpoints, tChunks>>
              ELSE LET bps == IF needsFallback(decided, Len(ts))
                              THEN fallbackBreakpoints(Len(ts), targetTurnsPerChunk)
                              ELSE decided
                       r == ApplyTurnBreakpoints(thread, ts, bps)
                   IN /\ tBreakpoints' = bps
                      /\ IF r.err # "" THEN /\ tResult' = r.err
                                            /\ UNCHANGED tChunks
                         ELSE /\ tChunks' = r.chunks
                              /\ tResult' = "writing"
    /\ UNCHANGED written
    /\ UNCHANGED T1
    /\ UNCHANGED <<chunkVars, splitVars, linVars, poolVars, batchVars, rollVars, rerunVars, startVars, itemVars, atomVars, retryVars, msgVars, resumeVars>>

\* One iteration of for i, ch := range chunks, with i = len(written).
\* exists: os.Stat finds the output path; writeOK: Stat, Marshal and
\* writeFileAtomic raise no other error.  All files of one call share the
\* start stamp, so a file name is identified by the number printed into it.
ChunkThreadWrite(exists, writeOK) ==
    /\ tResult = "writing"
    /\ Len(written) < Len(tChunks)
    /\ LET i == Len(written)
           ch == [tChunks[i + 1] EXCEPT !.ChunkNumber = i + 1]
       IN IF ~tOverwrite /\ exists THEN
              /\ tResult' = "output file already exists"
              /\ UNCHANGED written
          ELSE IF ~writeOK THEN
              /\ tResult' = "write chunk file"
              /\ UNCHANGED written
          ELSE
              /\ written' = Append(written, [filename |-> ch.ChunkNumber, content |-> ch])
              /\ UNCHANGED tResult
    /\ UNCHANGED <<tTurns, tBreakpoints, tChunks>>
    /\ UNCHANGED T1
    /\ UNCHANGED <<chunkVars, splitVars, linVars, poolVars, batchVars, rollVars, rerunVars, startVars, itemVars, atomVars, retryVars, msgVars, resumeVars>>

\* return written, nil
ChunkThreadReturn ==
    /\ tResult = "writing"
    /\ Len(written) = Len(tChunks)
    /\ tResult' = "ok"
    /\ UNCHANGED <<tTurns, tBreakpoints, tChunks, written>>
    /\ UNCHANGED T1
    /\ UNCHANGED <<chunkVars, splitVars, linVars, poolVars, batchVars, rollVars, rerunVars, startVars, itemVars, atomVars, retryVars, msgVars, resumeVars>>

ThreadNext ==
    \/ \E readOK \in BOOLEAN : ChunkThreadBegin(readOK)
    \/ \E exists \in BOOLEAN, writeOK \in BOOLEAN : ChunkThreadWrite(exists, writeOK)
    \/ ChunkThreadReturn

SpecThread == ThreadInit /\ [][ThreadNext]_vars

\* A direct call fallbackBreakpoints(fbTotalTurns, targetTurnsPerChunk) on arbitrary arguments.
FallbackInit ==
    /\ thread = <<>>
    /\ targetTurnsPerChunk \in -1..MaxTarget
    /\ fbTotalTurns \in 0..MaxTurns
    /\ decided = <<>> /\ deciderErr = FALSE /\ tOverwrite = FALSE
    /\ tTurns = <<>> /\ tBreakpoints = <<>> /\ tChunks = <<>> /\ written = <<>>
    /\ tResult = "start"
    /\ ChunkIdle /\ SplitIdle /\ LinIdle /\ PoolIdle /\ BatchIdle /\ RollIdle /\ RerunIdle /\ StartIdle /\ ItemIdle /\ AtomIdle /\ RetryIdle /\ MsgIdle /\ ResumeIdle

DoFallback ==
    /\ tResult = "start"
    /\ tBreakpoints' = fallbackBreakpoints(fbTotalTurns, targetTurnsPerChunk)
    /\ tResult' = "fallback"
    /\ UNCHANGED <<tTurns, tChunks, written>>
    /\ UNCHANGED T1
    /\ UNCHANGED <<chunkVars, splitVars, linVars, poolVars, batchVars, rollVars, rerunVars, startVars, itemVars, atomVars, retryVars, msgVars, resumeVars>>

FallbackNext == DoFallback

SpecFallback == FallbackInit /\ [][FallbackNext]_vars


----------------------------------------------------------------------------
(* Properties of turn segmentation and breakpoint application *)

SeqRange(s) == {s[i] : i \in DOMAIN s}

\* C1: for a turn list of length T >= 1 built from a thread and any raw
\* breakpoint list, ApplyTurnBreakpoints succeeds and the chunks' turn ranges
\* [TurnStart, TurnEnd) are non-empty, start at 0, each start where the
\* previous one ends, and end at T, so every turn index lies in exactly one chunk.
C1_ChunkRangesPartitionTurns ==
    (cpc = "applied" /\ Len(turns) >= 1) =>
        /\ applyErr = ""
        /\ Len(chunks) >= 1
        /\ chunks[1].TurnStart = 0
        /\ chunks[Len(chunks)].TurnEnd = Len(turns)
        /\ \A i \in 1..Len(chunks) : chunks[i].TurnStart < chunks[i].TurnEnd
        /\ \A i \in 1..(Len(chunks) - 1) : chunks[i + 1].TurnStart = chunks[i].TurnEnd
        /\ \A t \in 0..(Len(turns) - 1) :
              Cardinality({i \in 1..Len(chunks) :
                              chunks[i].TurnStart <= t /\ t < chunks[i].TurnEnd}) = 1

\* C1 witness: an unsorted raw list with an out-of-range value was applied and
\* produced more than one chunk.
C1_Witness ==
    /\ cpc = "applied"
    /\ Len(chunks) >= 2
    /\ \E i, j \in DOMAIN breakpoints : i < j /\ breakpoints[i] > breakpoints[j]
    /\ \E i \in DOMAIN breakpoints : breakpoints[i] <= 0 \/ breakpoints[i] >= Len(turns)

\* C2: for a non-empty message list the turns of BuildTurns cover the list
\* exactly once: the first turn starts at message 0, each next turn starts one
\* past the previous turn's end, the last turn ends at the last message, and
\* turn indices count 0,1,2,...
C2_TurnsCoverAllMessages ==
    (cpc \in {"turns", "applied"} /\ Len(msgs) >= 1) =>
        /\ Len(turns) >= 1
        /\ turns[1].StartMessageIndex = 0
        /\ turns[Len(turns)].EndMessageIndex = Len(msgs) - 1
        /\ \A k \in 1..(Len(turns) - 1) :
              turns[k + 1].StartMessageIndex = turns[k].EndMessageIndex + 1
        /\ \A k \in 1..Len(turns) : turns[k].TurnIndex = k - 1

\* C10: normalizeBreakpoints returns no error and a strictly increasing list
\* whose values are exactly the input values strictly between 0 and T; for
\* T <= 1 the result is empty.
C10_NormalizeSortedDedupedInRange ==
    cpc = "normalized" =>
        /\ normErr = FALSE
        /\ \A i \in 1..(Len(normOut) - 1) : normOut[i] < normOut[i + 1]
        /\ SeqRange(normOut) = {b \in SeqRange(breakpoints) : 0 < b /\ b < totalTurns}
        /\ (totalTurns <= 1 => normOut = <<>>)

\* C10 witness: an input with a duplicate in-range value, an out-of-range
\* value and a descent was normalized to a list of two or more values.
C10_Witness ==
    /\ cpc = "normalized"
    /\ Len(normOut) >= 2
    /\ Len(normOut) < Len(breakpoints)
    /\ \E i, j \in DOMAIN breakpoints : i < j /\ breakpoints[i] > breakpoints[j]

----------------------------------------------------------------------------
(* Properties of ChunkThread and fallbackBreakpoints *)

\* ChunkThread has received a list from the decider.
DeciderAnswered == tResult # "start" /\ Len(tTurns) > 0 /\ ~deciderErr

\* The decider's list is non-empty and normalizes to nothing.
NormalizesToNothing ==
    /\ DeciderAnswered
    /\ Len(decided) > 0
    /\ normalizeBreakpoints(decided, Len(tTurns)).out = <<>>

ApplyErrors == {"no turns", "normalize", "invalid message range", "produced no chunks"}

\* the number of turns chunk c spans
Span(c) == c.TurnEnd - c.TurnStart

\* C11 as stated: when the decider's breakpoints normalize to nothing,
\* ChunkThread raises no error for it and chunks the thread as the
\* deterministic fallback breakpoints would.
C11_FallbackWhenNormalizedEmpty ==
    NormalizesToNothing =>
        /\ tResult \notin ApplyErrors
        /\ tChunks = ApplyTurnBreakpoints(thread, tTurns,
                        fallbackBreakpoints(Len(tTurns), targetTurnsPerChunk)).chunks

\* C11 amended: when the decider's non-empty list normalizes to nothing,
\* ChunkThread raises no error for it, keeps the decider's list, and emits a
\* single chunk covering all turns [0, T); the fallback is computed only for
\* an empty decider list.
C11_SingleChunkWhenNormalizedEmpty ==
    /\ NormalizesToNothing =>
          /\ tResult \notin ApplyErrors
          /\ tBreakpoints = decided
          /\ Len(tChunks) = 1
          /\ tChunks[1].TurnStart = 0
          /\ tChunks[1].TurnEnd = Len(tTurns)
    /\ (DeciderAnswered /\ Len(decided) = 0) =>
          tBreakpoints = fallbackBreakpoints(Len(tTurns), targetTurnsPerChunk)

\* C11 witness: a call whose decider list normalized to nothing completed on a
\* thread with more turns than the target, where the fallback would have split.
C11_Witness ==
    /\ NormalizesToNothing
    /\ tResult = "ok"
    /\ Len(tTurns) > targetTurnsPerChunk
    /\ Len(written) = 1

\* C12: for T >= 0 and K >= 1, fallbackBreakpoints(T, K) is empty when
\* T <= K, and otherwise is exactly the ceil(T/K) - 1 values K, 2K, 3K, ...,
\* strictly increasing and all below T.
C12_FallbackBreakpointsShape ==
    (tResult = "fallback" /\ targetTurnsPerChunk >= 1) =>
        LET T == fbTotalTurns
            K == targetTurnsPerChunk
        IN /\ T <= K => tBreakpoints = <<>>
           /\ T > K =>
                /\ Len(tBreakpoints) = ((T + K - 1) \div K) - 1
                /\ \A i \in 1..Len(tBreakpoints) :
                      tBreakpoints[i] = i * K /\ tBreakpoints[i] < T
                /\ \A i \in 1..(Len(tBreakpoints) - 1) : tBreakpoints[i] < tBreakpoints[i + 1]

\* C12 witness: a call with T an exact multiple of K, at least 3K, returned
\* its breakpoints.
C12_Witness ==
    /\ tResult = "fallback"
    /\ targetTurnsPerChunk >= 2
    /\ fbTotalTurns >= 3 * targetTurnsPerChunk
    /\ fbTotalTurns % targetTurnsPerChunk = 0
    /\ Len(tBreakpoints) >= 2

\* C13: when the decider returns an empty list, ChunkThread uses the fallback
\* breakpoints, and every chunk spans exactly K turns except the last one,
\* which spans between 1 and K turns; the written files carry the same ranges.
C13_FallbackChunksOfTargetSize ==
    (DeciderAnswered /\ decided = <<>>) =>
        /\ tResult \notin ApplyErrors
        /\ Len(tChunks) >= 1
        /\ \A i \in 1..(Len(tChunks) - 1) : Span(tChunks[i]) = targetTurnsPerChunk
        /\ Span(tChunks[Len(tChunks)]) \in 1..targetTurnsPerChunk
        /\ \A i \in 1..Len(written) :
              /\ written[i].content.TurnStart = tChunks[i].TurnStart
              /\ written[i].content.TurnEnd = tChunks[i].TurnEnd

\* C13 witness: a completed call with an empty decider list that wrote three
\* or more chunks, the last one shorter than the target.
C13_Witness ==
    /\ DeciderAnswered /\ decided = <<>>
    /\ tResult = "ok"
    /\ Len(written) >= 3
    /\ Span(written[Len(written)].content) < targetTurnsPerChunk

\* C14: every chunk returned by ApplyTurnBreakpoints, and every chunk file
\* written by ChunkThread, has chunk_number equal to its 1-based position.
C14_ChunkNumberIsPosition ==
    /\ \A i \in 1..Len(tChunks) : tChunks[i].ChunkNumber = i
    /\ \A i \in 1..Len(written) :
          written[i].content.ChunkNumber = i /\ written[i].filename = i

----------------------------------------------------------------------------
(* openAIThreadRolluper: the start time of a rolled-up thread summary *)
\* A *float64: nil is <<>>, a value v is <<v>>.
StartPtrs == {<<>>} \cup {<<v>> : v \in 1..MaxStart}

\* the loop of minThreadStartFrom... with the comparison turned around
RECURSIVE minThreadStartLoop_max(_, _, _)
minThreadStartLoop_max(starts, min, ok) ==
    IF starts = <<>> THEN (IF ~ok THEN <<>> ELSE <<min>>)
    ELSE LET c == Head(starts) IN
         IF c = <<>> THEN minThreadStartLoop_max(Tail(starts), min, ok)
         ELSE IF ~ok \/ c[1] > min THEN minThreadStartLoop_max(Tail(starts), c[1], TRUE)
         ELSE minThreadStartLoop_max(Tail(starts), min, ok)

\* for _, c := range chunks { nil: continue; if !ok || *c.ThreadStart < min { min = ...; ok = true } }
\* followed by: if !ok { return nil }; return float64Ptr(min)
RECURSIVE minThreadStartLoop(_, _, _)
minThreadStartLoop(starts, min, ok) ==
    IF starts = <<>> THEN (IF ~ok THEN <<>> ELSE <<min>>)
    ELSE LET c == Head(starts) IN
         IF c = <<>> THEN minThreadStartLoop(Tail(starts), min, ok)
         ELSE IF ~ok \/ c[1] < min THEN minThreadStartLoop(Tail(starts), c[1], TRUE)
         ELSE minThreadStartLoop(Tail(starts), min, ok)

minThreadStartFromChunkSummaries(starts) == minThreadStartLoop(starts, 0, FALSE)

minThreadStartFromThreadSummaries(starts) == minThreadStartLoop(starts, 0, FALSE)

StartInit ==
    /\ inStarts \in SeqsUpTo(StartPtrs, MaxInputs)
    /\ outStart \in StartPtrs
    /\ rolluper \in {"chunks", "parts"}
    /\ resStart = <<>>
    /\ sResult = "start"
    /\ ChunkIdle /\ SplitIdle /\ LinIdle /\ PoolIdle /\ BatchIdle /\ RollIdle /\ ThreadIdle /\ RerunIdle /\ ItemIdle /\ AtomIdle /\ RetryIdle /\ MsgIdle /\ ResumeIdle

\* openAIThreadRolluper.Rollup; callOK: the client is configured, the model
\* call succeeds and its answer decodes (at the first or the second attempt).
Rollup(callOK) ==
    /\ sResult = "start"
    /\ rolluper = "chunks"
    /\ IF ~callOK THEN /\ sResult' = "rollup error"
                       /\ UNCHANGED resStart
       ELSE LET threadStart == minThreadStartFromChunkSummaries(inStarts) IN
            /\ resStart' = IF threadStart = <<>> THEN outStart ELSE threadStart
            /\ sResult' = "ok"
    /\ UNCHANGED <<inStarts, outStart, rolluper>>
    /\ UNCHANGED <<chunkVars, splitVars, linVars, poolVars, batchVars, rollVars, threadVars, rerunVars, itemVars, atomVars, retryVars, msgVars, resumeVars>>

\* openAIThreadRolluper.RollupFromThreadSummaries
RollupFromThreadSummaries(callOK) ==
    /\ sResult = "start"
    /\ rolluper = "parts"
    /\ IF ~callOK THEN /\ sResult' = "rollup merge error"
                       /\ UNCHANGED resStart
       ELSE LET threadStart == minThreadStartFromThreadSummaries(inStarts) IN
            /\ resStart' = IF threadStart = <<>> THEN outStart ELSE threadStart
            /\ sResult' = "ok"
    /\ UNCHANGED <<inStarts, outStart, rolluper>>
    /\ UNCHANGED <<chunkVars, splitVars, linVars, poolVars, batchVars, rollVars, threadVars, rerunVars, itemVars, atomVars, retryVars, msgVars, resumeVars>>

StartNext ==
    \/ \E callOK \in BOOLEAN : Rollup(callOK)
    \/ \E callOK \in BOOLEAN : RollupFromThreadSummaries(callOK)

SpecStart == StartInit /\ [][StartNext]_vars

\* the start times the inputs carry
InputStarts == {inStarts[i][1] : i \in {j \in DOMAIN inStarts : inStarts[j] # <<>>}}

\* the least element of a non-empty set of numbers
Least(S) == CHOOSE m \in S : \A x \in S : m <= x

\* C17 as stated: the result's start time is the minimum non-null start time
\* among the inputs and is never the start time of the model's answer, also
\* when no input carries a start time (the result then has none).
C17_StartNeverFromModel ==
    sResult = "ok" =>
        resStart = IF InputStarts = {} THEN <<>> ELSE <<Least(InputStarts)>>

\* C17 amended: when at least one input carries a start time, the result's
\* start time is the minimum non-null start time among the inputs, whatever
\* the model answered; when no input carries one, the result takes the start
\* time of the model's answer (nil if the answer has none).
C17_StartIsMinElseModel ==
    sResult = "ok" =>
        resStart = IF InputStarts = {} THEN outStart ELSE <<Least(InputStarts)>>

\* C17 witness: a rollup returned for inputs with a nil start and two
\* different start times, the smaller one not first, while the model's answer
\* carried a start time below both.
C17_Witness ==
    /\ sResult = "ok"
    /\ \E i \in DOMAIN inStarts : inStarts[i] = <<>>
    /\ \E i, j \in DOMAIN inStarts :
          i < j /\ inStarts[i] # <<>> /\ inStarts[j] # <<>> /\ inStarts[j][1] < inStarts[i][1]
    /\ outStart # <<>>
    /\ \A x \in InputStarts : outStart[1] < x

----------------------------------------------------------------------------
(* chunkWindows called directly on arbitrary arguments *)
WindowsInit ==
    /\ \E n \in 0..MaxWinItems : summaries = [k \in 1..n |-> k]
    /\ maxChunksPerThread \in -1..MaxWinSize
    /\ rOverwrite = FALSE /\ rResume = FALSE
    /\ partFiles = {} /\ parts = <<>> /\ ri = 0 /\ partSummaries = <<>>
    /\ mergeCalls = <<>> /\ rollupCalls = <<>> /\ finalWritten = FALSE
    /\ rResult = "start"
    /\ ChunkIdle /\ SplitIdle /\ LinIdle /\ PoolIdle /\ BatchIdle /\ ThreadIdle /\ RerunIdle /\ StartIdle /\ ItemIdle /\ AtomIdle /\ RetryIdle /\ MsgIdle /\ ResumeIdle

DoChunkWindows ==
    /\ rResult = "start"
    /\ parts' = chunkWindows(summaries, maxChunksPerThread)
    /\ rResult' = "chunked"
    /\ UNCHANGED <<partFiles, ri, partSummaries, mergeCalls, rollupCalls, finalWritten>>
    /\ UNCHANGED R1
    /\ UNCHANGED <<chunkVars, splitVars, linVars, poolVars, batchVars, threadVars, rerunVars, startVars, itemVars, atomVars, retryVars, msgVars, resumeVars>>

WindowsNext == DoChunkWindows

SpecWindows == WindowsInit /\ [][WindowsNext]_vars

\* the concatenation of a sequence of sequences
RECURSIVE Concat(_)
Concat(ss) == IF ss = <<>> THEN <<>> ELSE Head(ss) \o Concat(Tail(ss))

\* C18: the windows of chunkWindows concatenate to the input; with max <= 0
\* or n <= max there is exactly one window; otherwise there are ceil(n/max)
\* windows, each of exactly max items except the last, which has 1..max
\* items; 16 items with max 10 give windows of 10 and 6.
C18_WindowsPartitionInput ==
    rResult = "chunked" =>
        LET n == Len(summaries)
            max == maxChunksPerThread
        IN /\ Concat(parts) = summaries
           /\ (max <= 0 \/ n <= max) => Len(parts) = 1
           /\ ~(max <= 0 \/ n <= max) =>
                 /\ Len(parts) = (n + max - 1) \div max
                 /\ \A i \in 1..(Len(parts) - 1) : Len(parts[i]) = max
                 /\ Len(parts[Len(parts)]) \in 1..max
           /\ (n = 16 /\ max = 10) =>
                 /\ Len(parts) = 2 /\ Len(parts[1]) = 10 /\ Len(parts[2]) = 6

\* C18 witness: 16 items were split with max 10.
C18_Witness ==
    /\ rResult = "chunked"
    /\ Len(summaries) = 16 /\ maxChunksPerThread = 10
    /\ Len(parts) = 2

----------------------------------------------------------------------------
(* Resume and overwrite for one item: the worker body of chunk-summarizer    *)
(* for one chunk file, processThreadRollup for one thread, and the flags     *)
(* archive-pipeline starts both commands with.                               *)
Outputs == {"semantic", "sentiment"}

\* fileExists(path) for the item's output f
outputExists(f) == f \in iExisted \cup iWritten

\* the resume test left out
resumeSkips_never(res, semExists, sentExists) == FALSE

\* if cfg.Resume && fileExists(semanticOut) && fileExists(sentOut) { return }
resumeSkips(res, semExists, sentExists) == res /\ semExists /\ sentExists

\* needSemantic := cfg.Overwrite || !fileExists(outPath)
need(ovw, exists) == ovw \/ ~exists

\* The flags and the environment of the item.
I1 == <<kind, launcher, plOverwrite, iSentiment, iExisted>>

ItemInit ==
    /\ kind \in {"chunk", "thread"}
    /\ launcher \in {"pipeline", "direct"}
    /\ plOverwrite \in BOOLEAN
    /\ launcher = "direct" => ~plOverwrite
    /\ iResume \in BOOLEAN /\ iOverwrite \in BOOLEAN
    /\ launcher = "pipeline" => (~iResume /\ ~iOverwrite)
    /\ iSentiment \in BOOLEAN
    /\ kind = "chunk" => iSentiment
    /\ iExisted \in SUBSET Outputs
    /\ iWritten = {} /\ iCalls = {}
    /\ iResult = IF launcher = "pipeline" THEN "stage" ELSE "start"
    /\ ChunkIdle /\ SplitIdle /\ LinIdle /\ PoolIdle /\ BatchIdle /\ RollIdle /\ ThreadIdle /\ RerunIdle /\ StartIdle /\ AtomIdle /\ RetryIdle /\ MsgIdle /\ ResumeIdle

\* archive-pipeline, stages "summarize" and "rollup": -resume=true always,
\* -overwrite when the pipeline's own overwrite flag is set
PipelineStage ==
    /\ iResult = "stage"
    /\ iResume' = TRUE
    /\ iOverwrite' = plOverwrite
    /\ iResult' = "start"
    /\ UNCHANGED <<iWritten, iCalls>>
    /\ UNCHANGED I1
    /\ UNCHANGED <<chunkVars, splitVars, linVars, poolVars, batchVars, rollVars, threadVars, rerunVars, startVars, atomVars, retryVars, msgVars, resumeVars>>

\* chunk worker: ctx test, resume test, readChunkFile
WorkerBegin(ctxDone, readOK) ==
    /\ kind = "chunk"
    /\ iResult = "start"
    /\ iResult' = IF ctxDone THEN "ctx error"
                  ELSE IF resumeSkips(iResume, outputExists("semantic"), outputExists("sentiment"))
                       THEN "skipped"
                  ELSE IF ~readOK THEN "unreadable"
                  ELSE "summarize"
    /\ UNCHANGED <<iResume, iOverwrite, iWritten, iCalls>>
    /\ UNCHANGED I1
    /\ UNCHANGED <<chunkVars, splitVars, linVars, poolVars, batchVars, rollVars, threadVars, rerunVars, startVars, atomVars, retryVars, msgVars, resumeVars>>

\* chunk worker: SummarizeChunkWithOptions, with its one retry; ok: one of the two succeeds
WorkerSummarize(ok) ==
    /\ kind = "chunk"
    /\ iResult = "summarize"
    /\ iCalls' = iCalls \cup {"semantic"}
    /\ iResult' = IF ok THEN "summarizeSentiment" ELSE "semantic summarize error"
    /\ UNCHANGED <<iResume, iOverwrite, iWritten>>
    /\ UNCHANGED I1
    /\ UNCHANGED <<chunkVars, splitVars, linVars, poolVars, batchVars, rollVars, threadVars, rerunVars, startVars, atomVars, retryVars, msgVars, resumeVars>>

\* chunk worker: SummarizeChunkSentimentWithOptions, with its one retry
WorkerSentiment(ok) ==
    /\ kind = "chunk"
    /\ iResult = "summarizeSentiment"
    /\ iCalls' = iCalls \cup {"sentiment"}
    /\ iResult' = IF ok THEN "writeSemantic" ELSE "sentiment summarize error"
    /\ UNCHANGED <<iResume, iOverwrite, iWritten>>
    /\ UNCHANGED I1
    /\ UNCHANGED <<chunkVars, splitVars, linVars, poolVars, batchVars, rollVars, threadVars, rerunVars, startVars, atomVars, retryVars, msgVars, resumeVars>>

\* writeSummaryFile / writeSentimentSummaryFile for output f and the worker's
\* test of its error; ioOK: Stat, MkdirAll, Marshal and the atomic write succeed
WorkerWrite(f, from, to, ioOK) ==
    /\ kind = "chunk"
    /\ iResult = from
    /\ IF ~iOverwrite /\ outputExists(f) THEN
           \* "summary already exists"
           /\ iResult' = IF iResume THEN to ELSE "already exists"
           /\ UNCHANGED iWritten
       ELSE IF ~ioOK THEN
           /\ iResult' = "write error"
           /\ UNCHANGED iWritten
       ELSE
           /\ iWritten' = iWritten \cup {f}
           /\ iResult' = to
    /\ UNCHANGED <<iResume, iOverwrite, iCalls>>
    /\ UNCHANGED I1
    /\ UNCHANGED <<chunkVars, splitVars, linVars, poolVars, batchVars, rollVars, threadVars, rerunVars, startVars, atomVars, retryVars, msgVars, resumeVars>>

WorkerWriteSemantic(ioOK) == WorkerWrite("semantic", "writeSemantic", "writeSentiment", ioOK)

WorkerWriteSentiment(ioOK) == WorkerWrite("sentiment", "writeSentiment", "done", ioOK)

RollOutcomes == {"ok", "early error", "rollup error"}

\* processThreadRollup for output f: the need test, the exists error, and
\* write...WithOptionalSplit.  outcome "early error": it fails before any
\* rolluper call (a part file that exists without resume, or cannot be read);
\* "rollup error": a rolluper call or a write fails; "ok": the final file is written.
ProcOutput(f, to, outcome) ==
    IF ~need(iOverwrite, outputExists(f)) THEN
        /\ iResult' = IF ~iResume /\ ~iOverwrite THEN "summary exists" ELSE to
        /\ UNCHANGED <<iWritten, iCalls>>
    ELSE IF outcome = "early error" THEN
        /\ iResult' = "rollup failed"
        /\ UNCHANGED <<iWritten, iCalls>>
    ELSE IF outcome = "rollup error" THEN
        /\ iCalls' = iCalls \cup {f}
        /\ iResult' = "rollup failed"
        /\ UNCHANGED iWritten
    ELSE
        /\ iCalls' = iCalls \cup {f}
        /\ iWritten' = iWritten \cup {f}
        /\ iResult' = to

\* processThreadRollup: ctx test and the thread summary
ProcSemantic(ctxDone, outcome) ==
    /\ kind = "thread"
    /\ iResult = "start"
    /\ IF ctxDone THEN /\ iResult' = "ctx error"
                       /\ UNCHANGED <<iWritten, iCalls>>
       ELSE ProcOutput("semantic", "threadSentiment", outcome)
    /\ UNCHANGED <<iResume, iOverwrite>>
    /\ UNCHANGED I1
    /\ UNCHANGED <<chunkVars, splitVars, linVars, poolVars, batchVars, rollVars, threadVars, rerunVars, startVars, atomVars, retryVars, msgVars, resumeVars>>

\* processThreadRollup: the thread sentiment summary, and return nil
ProcSentiment(outcome) ==
    /\ kind = "thread"
    /\ iResult = "threadSentiment"
    /\ IF ~iSentiment THEN /\ iResult' = "done"
                           /\ UNCHANGED <<iWritten, iCalls>>
       ELSE ProcOutput("sentiment", "done", outcome)
    /\ UNCHANGED <<iResume, iOverwrite>>
    /\ UNCHANGED I1
    /\ UNCHANGED <<chunkVars, splitVars, linVars, poolVars, batchVars, rollVars, threadVars, rerunVars, startVars, atomVars, retryVars, msgVars, resumeVars>>

ItemNext ==
    \/ PipelineStage
    \/ \E ctxDone \in BOOLEAN, readOK \in BOOLEAN : WorkerBegin(ctxDone, readOK)
    \/ \E ok \in BOOLEAN : WorkerSummarize(ok)
    \/ \E ok \in BOOLEAN : WorkerSentiment(ok)
    \/ \E ioOK \in BOOLEAN : WorkerWriteSemantic(ioOK)
    \/ \E ioOK \in BOOLEAN : WorkerWriteSentiment(ioOK)
    \/ \E ctxDone \in BOOLEAN, outcome \in RollOutcomes : ProcSemantic(ctxDone, outcome)
    \/ \E outcome \in RollOutcomes : ProcSentiment(outcome)

SpecItem == ItemInit /\ [][ItemNext]_vars

\* the handler is at one of its steps
ItemRunning ==
    iResult \in {"stage", "start", "summarize", "summarizeSentiment", "writeSemantic",
                 "writeSentiment", "threadSentiment"}

\* C19 as stated: with resume on and overwrite off, a chunk whose semantic and
\* sentiment summary files both exist, and a thread whose thread summary file
\* exists, is skipped: no summarizer or rolluper call is made for it and none
\* of its existing output files is written.
C19_ResumeSkipsExistingOutputs ==
    (/\ iResume /\ ~iOverwrite
     /\ IF kind = "chunk" THEN iExisted = Outputs ELSE "semantic" \in iExisted) =>
        /\ iCalls = {}
        /\ iWritten \cap iExisted = {}

\* C19 amended: with resume on and overwrite off, a chunk whose semantic and
\* sentiment summary files both exist, and a thread whose thread summary file
\* exists and, when sentiment rollup applies to it, whose thread sentiment
\* summary file exists too, is skipped: no summarizer or rolluper call is
\* made for it, no file is written, and the handler reports no error of its
\* own.  A thread whose sentiment summary is missing still gets its sentiment
\* rollup, and only that.
C19_ResumeSkipsCompleteItems ==
    /\ (/\ iResume /\ ~iOverwrite
        /\ IF kind = "chunk" THEN iExisted = Outputs
           ELSE "semantic" \in iExisted /\ (iSentiment => "sentiment" \in iExisted)) =>
           /\ iCalls = {}
           /\ iWritten = {}
           /\ ~ItemRunning => iResult \in {"skipped", "done", "ctx error"}
    /\ (iResume /\ ~iOverwrite /\ kind = "thread" /\ "semantic" \in iExisted) =>
           /\ iCalls \subseteq {"sentiment"}
           /\ iWritten \subseteq {"sentiment"} \ iExisted

\* C19 witness: a thread with both summary files, started by the pipeline
\* without overwrite, was passed over by processThreadRollup.
C19_Witness ==
    /\ kind = "thread" /\ launcher = "pipeline" /\ ~plOverwrite
    /\ iSentiment /\ iExisted = Outputs
    /\ iResult = "done"
    /\ iCalls = {} /\ iWritten = {}

\* C20: under the pipeline's -overwrite, the summarize stage (started with
\* -resume=true) summarizes every chunk again and rewrites its files, also
\* when both files exist: a chunk whose worker returned without an error has
\* had both summarizer calls made and both files written.
C20_PipelineOverwriteResummarizes ==
    (/\ launcher = "pipeline" /\ plOverwrite /\ kind = "chunk"
     /\ iResult \in {"skipped", "done"}) =>
        /\ iCalls = Outputs
        /\ iWritten = Outputs

----------------------------------------------------------------------------
(* writeFileAtomic and writeFileAtomicSameDir, one call, step by step.       *)
(* A path is the sequence of its components.                                 *)
DataBytes == {"a", "b"}

AtomDirs == {<<"out">>, <<"out", "t1">>}

AtomCallers == {"splitArrayFromOpen", "ChunkThread", "SaveGlossary", "writeSummaryFile"}

\* filepath.Join(dir, name), name without a separator
pathJoin(dir, name) == Append(dir, name)

\* filepath.Dir(path)
pathDir(path) == SubSeq(path, 1, Len(path) - 1)

\* outPath / path at the call site
finalPath(outDir) == pathJoin(outDir, "f.json")

\* the temp file left in place
removeTemp_keep(t) == t

\* defer func() { _ = os.Remove(tmpName) }()
removeTemp(t) == <<>>

\* The directory handed to os.CreateTemp: the tmpDir argument of
\* writeFileAtomic as each caller passes it, dir := filepath.Dir(path) in
\* writeFileAtomicSameDir.
createTempDir(caller, outDir) ==
    CASE caller = "splitArrayFromOpen" -> outDir
      [] caller = "ChunkThread" -> outDir
      [] caller = "SaveGlossary" -> pathDir(finalPath(outDir))
      [] caller = "writeSummaryFile" -> pathDir(finalPath(outDir))

AtomInit ==
    /\ aCaller \in AtomCallers
    /\ aOutDir \in AtomDirs
    /\ aData \in SeqsUpTo(DataBytes, MaxData)
    /\ aPrev \in {<<>>, <<<<>>>>, <<<<"a">>>>, <<<<"b", "\n">>>>}
    /\ aDest = aPrev
    /\ aTmp = <<>>
    /\ aPc = "MkdirAll"
    /\ aErr = ""
    /\ aResult = "running"
    /\ ChunkIdle /\ SplitIdle /\ LinIdle /\ PoolIdle /\ BatchIdle /\ RollIdle /\ ThreadIdle /\ RerunIdle /\ StartIdle /\ ItemIdle /\ RetryIdle /\ MsgIdle /\ ResumeIdle

\* return before the defer is registered
AtomReturnErr(step) ==
    /\ aPc' = "returned" /\ aErr' = step /\ aResult' = "error"

\* return with the deferred os.Remove pending
AtomUnwind(step) ==
    /\ aPc' = "defer" /\ aErr' = step

\* os.MkdirAll(filepath.Dir(finalPath), 0o755)
AMkdirAll(ok) ==
    /\ aPc = "MkdirAll"
    /\ IF ok THEN aPc' = "CreateTemp" /\ UNCHANGED <<aErr, aResult>>
             ELSE AtomReturnErr("MkdirAll")
    /\ UNCHANGED <<aCaller, aOutDir, aData, aPrev, aDest, aTmp>>
    /\ UNCHANGED <<chunkVars, splitVars, linVars, poolVars, batchVars, rollVars, threadVars, rerunVars, startVars, itemVars, retryVars, msgVars, resumeVars>>

\* os.CreateTemp(tmpDir, pattern)
ACreateTemp(ok) ==
    /\ aPc = "CreateTemp"
    /\ IF ok THEN /\ aTmp' = <<[dir |-> createTempDir(aCaller, aOutDir), content |-> <<>>]>>
                  /\ aPc' = "Chmod"
                  /\ UNCHANGED <<aErr, aResult>>
             ELSE /\ AtomReturnErr("CreateTemp")
                  /\ UNCHANGED aTmp
    /\ UNCHANGED <<aCaller, aOutDir, aData, aPrev, aDest>>
    /\ UNCHANGED <<chunkVars, splitVars, linVars, poolVars, batchVars, rollVars, threadVars, rerunVars, startVars, itemVars, retryVars, msgVars, resumeVars>>

\* tmp.Chmod(mode)
AChmod(ok) ==
    /\ aPc = "Chmod"
    /\ IF ok THEN aPc' = "Write" /\ UNCHANGED aErr ELSE AtomUnwind("Chmod")
    /\ UNCHANGED <<aCaller, aOutDir, aData, aPrev, aDest, aTmp, aResult>>
    /\ UNCHANGED <<chunkVars, splitVars, linVars, poolVars, batchVars, rollVars, threadVars, rerunVars, startVars, itemVars, retryVars, msgVars, resumeVars>>

\* tmp.Write(data): n bytes reach the file; an error may come with any n
AWrite(n, ok) ==
    /\ aPc = "Write"
    /\ n \in 0..Len(aData)
    /\ ok => n = Len(aData)
    /\ aTmp' = <<[aTmp[1] EXCEPT !.content = @ \o SubSeq(aData, 1, n)]>>
    /\ IF ok THEN aPc' = "WriteNewline" /\ UNCHANGED aErr ELSE AtomUnwind("Write")
    /\ UNCHANGED <<aCaller, aOutDir, aData, aPrev, aDest, aResult>>
    /\ UNCHANGED <<chunkVars, splitVars, linVars, poolVars, batchVars, rollVars, threadVars, rerunVars, startVars, itemVars, retryVars, msgVars, resumeVars>>

\* tmp.Write([]byte("\n"))
AWriteNewline(ok) ==
    /\ aPc = "WriteNewline"
    /\ IF ok THEN /\ aTmp' = <<[aTmp[1] EXCEPT !.content = @ \o <<"\n">>]>>
                  /\ aPc' = "Sync"
                  /\ UNCHANGED aErr
             ELSE /\ AtomUnwind("WriteNewline")
                  /\ UNCHANGED aTmp
    /\ UNCHANGED <<aCaller, aOutDir, aData, aPrev, aDest, aResult>>
    /\ UNCHANGED <<chunkVars, splitVars, linVars, poolVars, batchVars, rollVars, threadVars, rerunVars, startVars, itemVars, retryVars, msgVars, resumeVars>>

\* tmp.Sync()
ASync(ok) ==
    /\ aPc = "Sync"
    /\ IF ok THEN aPc' = "Close" /\ UNCHANGED aErr ELSE AtomUnwind("Sync")
    /\ UNCHANGED <<aCaller, aOutDir, aData, aPrev, aDest, aTmp, aResult>>
    /\ UNCHANGED <<chunkVars, splitVars, linVars, poolVars, batchVars, rollVars, threadVars, rerunVars, startVars, itemVars, retryVars, msgVars, resumeVars>>

\* tmp.Close()
AClose(ok) ==
    /\ aPc = "Close"
    /\ IF ok THEN aPc' = "Rename" /\ UNCHANGED aErr ELSE AtomUnwind("Close")
    /\ UNCHANGED <<aCaller, aOutDir, aData, aPrev, aDest, aTmp, aResult>>
    /\ UNCHANGED <<chunkVars, splitVars, linVars, poolVars, batchVars, rollVars, threadVars, rerunVars, startVars, itemVars, retryVars, msgVars, resumeVars>>

\* os.Rename(tmpName, finalPath): the temp file becomes the destination in one step
ARename(ok) ==
    /\ aPc = "Rename"
    /\ IF ok THEN /\ aDest' = <<aTmp[1].content>>
                  /\ aTmp' = <<>>
                  /\ aPc' = "defer"
                  /\ UNCHANGED aErr
             ELSE /\ AtomUnwind("Rename")
                  /\ UNCHANGED <<aDest, aTmp>>
    /\ UNCHANGED <<aCaller, aOutDir, aData, aPrev, aResult>>
    /\ UNCHANGED <<chunkVars, splitVars, linVars, poolVars, batchVars, rollVars, threadVars, rerunVars, startVars, itemVars, retryVars, msgVars, resumeVars>>

\* the deferred os.Remove(tmpName), then the return
ADeferredRemove ==
    /\ aPc = "defer"
    /\ aTmp' = IF aTmp = <<>> THEN aTmp ELSE removeTemp(aTmp)
    /\ aPc' = "returned"
    /\ aResult' = IF aErr = "" THEN "nil" ELSE "error"
    /\ UNCHANGED <<aCaller, aOutDir, aData, aPrev, aDest, aErr>>
    /\ UNCHANGED <<chunkVars, splitVars, linVars, poolVars, batchVars, rollVars, threadVars, rerunVars, startVars, itemVars, retryVars, msgVars, resumeVars>>

AtomNext ==
    \/ \E ok \in BOOLEAN : AMkdirAll(ok)
    \/ \E ok \in BOOLEAN : ACreateTemp(ok)
    \/ \E ok \in BOOLEAN : AChmod(ok)
    \/ \E n \in 0..MaxData, ok \in BOOLEAN : AWrite(n, ok)
    \/ \E ok \in BOOLEAN : AWriteNewline(ok)
    \/ \E ok \in BOOLEAN : ASync(ok)
    \/ \E ok \in BOOLEAN : AClose(ok)
    \/ \E ok \in BOOLEAN : ARename(ok)
    \/ ADeferredRemove

SpecAtom == AtomInit /\ [][AtomNext]_vars

\* C22: throughout an atomic write the destination is either as it was before
\* the call (absent or with its old content) or holds the whole payload
\* followed by one newline; the temp file lives in the destination's own
\* directory; and a call that returns an error (from any step up to and
\* including the rename) leaves the destination as it was and no temp file.
C22_AtomicWrite ==
    /\ aDest = aPrev \/ aDest = <<aData \o <<"\n">>>>
    /\ aTmp # <<>> => aTmp[1].dir = pathDir(finalPath(aOutDir))
    /\ aResult = "error" => aDest = aPrev /\ aTmp = <<>>
    /\ aResult = "nil" => aDest = <<aData \o <<"\n">>>> /\ aTmp = <<>>

\* C22 witness: a write of a two-byte payload over an older file failed half
\* way through the payload and has returned.
C22_Witness ==
    /\ aResult = "error" /\ aErr = "Write"
    /\ Len(aData) = 2
    /\ aPrev = <<<<"b", "\n">>>>
    /\ aDest = aPrev

----------------------------------------------------------------------------
(* callWithRetry: the provider call with its retry backoff *)
maxRetries == 3

rateLimitWaitTimes == <<65, 100, 135>>

serverErrorWaitTimes == <<5, 30, 60>>

RetryCallers == {"Summarize", "SummarizeSentiment", "Rollup", "RollupFromThreadSummaries"}

\* What client.Responses.New(ctx, params) returns: "" for a response, else the
\* error, by the class its text falls in.
CallOutcomes == {"", "rate limit", "server error", "other", "context canceled"}

isRateLimitError(err) == err = "rate limit"

isServerError(err) == err = "server error"

RetryInit ==
    /\ rCaller \in RetryCallers
    /\ attempt = 0
    /\ rpc = "call"
    /\ rErr = ""
    /\ rCtxDone = FALSE
    /\ rSlept = <<>>
    /\ retryResult = "running"
    /\ ChunkIdle /\ SplitIdle /\ LinIdle /\ PoolIdle /\ BatchIdle /\ RollIdle /\ ThreadIdle /\ RerunIdle /\ StartIdle /\ ItemIdle /\ AtomIdle /\ MsgIdle /\ ResumeIdle

\* the shared context is cancelled (a sibling failed, or the parent was cancelled)
RetryCancel ==
    /\ retryResult = "running"
    /\ ~rCtxDone
    /\ rCtxDone' = TRUE
    /\ UNCHANGED <<rCaller, attempt, rpc, rErr, rSlept, retryResult>>
    /\ UNCHANGED <<chunkVars, splitVars, linVars, poolVars, batchVars, rollVars, threadVars, rerunVars, startVars, itemVars, atomVars, msgVars, resumeVars>>

\* resp, err := client.Responses.New(ctx, params) and the branch taken on err
RetryCall(outcome) ==
    /\ rpc = "call"
    /\ outcome = "context canceled" => rCtxDone
    /\ rErr' = outcome
    /\ IF outcome # "" /\ (isRateLimitError(outcome) \/ isServerError(outcome))
          /\ attempt < maxRetries - 1
       THEN /\ rpc' = "sleep"
            /\ UNCHANGED retryResult
       ELSE /\ rpc' = "returned"
            /\ retryResult' = IF outcome = "" THEN "resp" ELSE outcome
    /\ UNCHANGED <<rCaller, attempt, rCtxDone, rSlept>>
    /\ UNCHANGED <<chunkVars, splitVars, linVars, poolVars, batchVars, rollVars, threadVars, rerunVars, startVars, itemVars, atomVars, msgVars, resumeVars>>

\* time.Sleep(waitTimes[attempt]) returns; continue
RetrySleepEnds ==
    /\ rpc = "sleep"
    /\ rSlept' = Append(rSlept, IF isRateLimitError(rErr) THEN rateLimitWaitTimes[attempt + 1]
                                                         ELSE serverErrorWaitTimes[attempt + 1])
    /\ attempt' = attempt + 1
    /\ IF attempt + 1 < maxRetries
       THEN rpc' = "call" /\ UNCHANGED retryResult
       ELSE rpc' = "returned" /\ retryResult' = "failed after attempts"
    /\ UNCHANGED <<rCaller, rErr, rCtxDone>>
    /\ UNCHANGED <<chunkVars, splitVars, linVars, poolVars, batchVars, rollVars, threadVars, rerunVars, startVars, itemVars, atomVars, msgVars, resumeVars>>

RetryNext ==
    \/ RetryCancel
    \/ \E outcome \in CallOutcomes : RetryCall(outcome)
    \/ RetrySleepEnds

SpecRetry == RetryInit /\ [][RetryNext]_vars

\* C23: cancellation is observed at the backoff sleep of the provider call: a
\* call sleeping between attempts when the shared context is cancelled does
\* not complete the wait and go on to the next attempt.
C23_CancelledSleepUnwinds ==
    [][(rpc = "sleep" /\ rCtxDone) => (rpc' # "call" /\ rSlept' = rSlept)]_vars

----------------------------------------------------------------------------
(* simplifyMessage, as linearizeMessages applies it to one node of the path *)
sSystem == <<"s", "y", "s", "t", "e", "m">>
sTool == <<"t", "o", "o", "l">>
sUser == <<"u", "s", "e", "r">>
sAssistant == <<"a", "s", "s", "i", "s", "t", "a", "n", "t">>
sUnknown == <<"u", "n", "k", "n", "o", "w", "n">>
sText == <<"t", "e", "x", "t">>
sImage == <<"i", "m", "a", "g", "e">>
sQuote == <<"q", "u", "o", "t", "e">>

\* strings.ToLower, on the letters that occur in upper case here
lowerRune(r) ==
    CASE r = "I" -> "i" [] r = "S" -> "s" [] OTHER -> r

ToLower(str) == [i \in 1..Len(str) |-> lowerRune(str[i])]

\* strings.Contains
Contains(str, sub) ==
    \E i \in 1..(Len(str) + 1) : i + Len(sub) - 1 <= Len(str) /\ SubSeq(str, i, i + Len(sub) - 1) = sub

\* strings.Join(parts, "\n")
RECURSIVE JoinLines(_)
JoinLines(ss) ==
    IF ss = <<>> THEN <<>>
    ELSE IF Len(ss) = 1 THEN ss[1]
    ELSE ss[1] \o <<"\n">> \o JoinLines(Tail(ss))

\* the string elements of probe.Parts; a part is <<s>> for a string s, <<>> for any other JSON value
RECURSIVE stringParts(_)
stringParts(ps) ==
    IF ps = <<>> THEN <<>>
    ELSE (IF Head(ps) # <<>> THEN <<Head(ps)[1]>> ELSE <<>>) \o stringParts(Tail(ps))

\* m.Content is <<>> for an empty raw value, else <<probe>>
extractContentSummary(raw) ==
    IF raw = <<>> THEN [contentType |-> <<>>, text |-> <<>>, Title |-> <<>>, URL |-> <<>>]
    ELSE LET probe == raw[1]
             strs == stringParts(probe.parts)
         IN [contentType |-> TrimSpace(probe.content_type),
             text |-> IF Len(strs) > 0 THEN JoinLines(strs) ELSE probe.text,
             Title |-> TrimSpace(probe.title),
             URL |-> TrimSpace(probe.url)]

\* any value under the key taken as the flag being set
isHiddenFromConversation_present(metadata) == metadata # "absent"

\* metadata["is_visually_hidden_from_conversation"]: "absent", "true", "false", or "string" for a non-bool value
isHiddenFromConversation(metadata) == metadata = "true"

isImageLikeContentType(ct) ==
    LET c == ToLower(TrimSpace(ct)) IN
    IF c = <<>> THEN FALSE ELSE Contains(c, sImage)

simplifyMessage(m) ==
    LET trimmed == TrimSpace(m.role)
        role == IF trimmed = <<>> THEN sUnknown ELSE trimmed
        c == extractContentSummary(m.content)
        sm == [Role |-> role, ContentType |-> c.contentType, Text |-> c.text,
               Title |-> c.Title, URL |-> c.URL]
    IN IF role = sSystem /\ TrimSpace(c.text) = <<>> /\ isHiddenFromConversation(m.metadata)
       THEN [sm |-> <<>>, ok |-> FALSE]
       ELSE IF /\ sm.Role = sTool
               /\ TrimSpace(sm.Text) = <<>>
               /\ TrimSpace(sm.Title) = <<>>
               /\ TrimSpace(sm.URL) = <<>>
               /\ isImageLikeContentType(sm.ContentType)
       THEN [sm |-> <<>>, ok |-> FALSE]
       ELSE IF TrimSpace(sm.Text) = <<>> /\ sm.ContentType = <<>> /\ sm.URL = <<>> /\ sm.Title = <<>>
       THEN [sm |-> <<>>, ok |-> FALSE]
       ELSE [sm |-> <<sm>>, ok |-> TRUE]

MsgRoles == { sSystem, <<" ">> \o sSystem \o <<" ">>, <<"S">> \o Tail(sSystem), sUser, sAssistant,
              sTool, sTool \o <<" ">>, <<>>, <<" ">> }

Probe(ct, ps, text, title, url) ==
    <<[content_type |-> ct, parts |-> ps, text |-> text, title |-> title, url |-> url]>>

MsgContents ==
    { <<>>,
      Probe(sText, << <<<<>>>> >>, <<>>, <<>>, <<>>),
      Probe(sText, << <<<<"h", "i">>>> >>, <<>>, <<>>, <<>>),
      Probe(sText, << <<<<" ">>>> >>, <<>>, <<>>, <<>>),
      Probe(sText, << <<<<"a">>>>, <<>>, <<<<"b">>>> >>, <<>>, <<>>, <<>>),
      Probe(sImage, << <<>> >>, <<>>, <<>>, <<>>),
      Probe(<<" ", "I">> \o Tail(sImage) \o <<"s">>, <<>>, <<>>, <<>>, <<>>),
      Probe(sImage, <<>>, <<>>, <<>>, <<"u">>),
      Probe(sImage, <<>>, <<>>, <<"t">>, <<>>),
      Probe(sImage, << <<>> >>, <<"x">>, <<>>, <<>>),
      Probe(sQuote, <<>>, <<"h", "i">>, <<"t">>, <<"u">>),
      Probe(sQuote, <<>>, <<>>, <<>>, <<>>),
      Probe(<<>>, <<>>, <<>>, <<" ">>, <<>>),
      Probe(<<>>, <<>>, <<>>, <<>>, <<"u">>),
      Probe(<<>>, <<>>, <<" ">>, <<>>, <<>>),
      Probe(<<" ">>, << <<>> >>, <<>>, <<>>, <<" ">>) }

MsgMetadata == {"absent", "true", "false", "string"}

RawMessages == [role : MsgRoles, content : MsgContents, metadata : MsgMetadata]

MsgInit ==
    /\ nMessage \in {<<>>} \cup {<<m>> : m \in RawMessages}
    /\ appended = <<>>
    /\ mpc = "node"
    /\ ChunkIdle /\ SplitIdle /\ LinIdle /\ PoolIdle /\ BatchIdle /\ RollIdle /\ ThreadIdle /\ RerunIdle /\ StartIdle /\ ItemIdle /\ AtomIdle /\ RetryIdle /\ ResumeIdle

\* if n.Message != nil { sm, ok := simplifyMessage(*n.Message); if ok { reversed = append(reversed, sm) } }
VisitNode ==
    /\ mpc = "node"
    /\ appended' = IF nMessage # <<>> /\ simplifyMessage(nMessage[1]).ok
                   THEN simplifyMessage(nMessage[1]).sm ELSE <<>>
    /\ mpc' = "done"
    /\ UNCHANGED nMessage
    /\ UNCHANGED <<chunkVars, splitVars, linVars, poolVars, batchVars, rollVars, threadVars, rerunVars, startVars, itemVars, atomVars, retryVars, resumeVars>>

MsgNext == VisitNode

SpecMsg == MsgInit /\ [][MsgNext]_vars

\* The message's attributes, in the claim's terms.
MsgRole == TrimSpace(nMessage[1].role)
MsgSummary == extractContentSummary(nMessage[1].content)
MsgNoText == TrimSpace(MsgSummary.text) = <<>>
MsgHiddenEmptySystem ==
    MsgRole = sSystem /\ MsgNoText /\ nMessage[1].metadata = "true"
MsgBareToolImage ==
    /\ MsgRole = sTool /\ MsgNoText
    /\ MsgSummary.Title = <<>> /\ MsgSummary.URL = <<>>
    /\ Contains(ToLower(MsgSummary.contentType), sImage)
MsgNoContent ==
    /\ MsgNoText /\ MsgSummary.contentType = <<>>
    /\ MsgSummary.URL = <<>> /\ MsgSummary.Title = <<>>

\* C25: the message of a node on the walked path is dropped exactly when it is
\* an empty system message flagged hidden from the conversation, a tool
\* message without text, title and url whose content type contains "image",
\* or a message without text, content type, url and title; every other
\* message is kept, with its role trimmed and an empty role replaced by
\* "unknown".
C25_DroppedExactlyWhenNoise ==
    (mpc = "done" /\ nMessage # <<>>) =>
        /\ appended = <<>> <=> (MsgHiddenEmptySystem \/ MsgBareToolImage \/ MsgNoContent)
        /\ appended # <<>> =>
              /\ appended[1].Role = (IF MsgRole = <<>> THEN sUnknown ELSE MsgRole)
              /\ appended[1].Text = MsgSummary.text
              /\ appended[1].ContentType = MsgSummary.contentType

\* C25 witness: a system message with an empty text part, flagged hidden, has
\* been dropped although it has a content type.
C25_Witness ==
    /\ mpc = "done" /\ nMessage # <<>>
    /\ MsgHiddenEmptySystem
    /\ MsgSummary.contentType = sText
    /\ appended = <<>>

----------------------------------------------------------------------------
(* A conversation through the split stage and then the chunk stage:          *)
(* simplifyConversation puts the result of linearizeMessages into the thread *)
(* file, thread-chunker hands that file to ChunkThread.                      *)
SplitChunkInit == LinInit

\* simplifyConversation returns Messages: msgs, splitArrayFromOpen writes the
\* file and the splitter is done with the conversation; thread-chunker then
\* calls ChunkThread on the file.  The kept messages have any roles.
ThreadFileWritten ==
    /\ linResult = "ok"
    /\ tResult = "idle"
    /\ thread' \in [1..Len(linMsgs) -> ThreadRoles]
    /\ targetTurnsPerChunk' \in 1..MaxTarget
    /\ decided' \in SeqsUpTo(DecidedVals, MaxDecided)
    /\ deciderErr' \in BOOLEAN
    /\ deciderErr' => decided' = <<>>
    /\ tOverwrite' \in BOOLEAN
    /\ tResult' = "start"
    /\ UNCHANGED <<fbTotalTurns, tTurns, tBreakpoints, tChunks, written>>
    /\ mapping' = <<>> /\ currentNode' = 0 /\ lstart' = 0 /\ linFirst' = 0
    /\ visited' = {} /\ reversed' = <<>> /\ dropped' = {} /\ li' = 0 /\ linMsgs' = <<>>
    /\ linResult' = "idle"
    /\ UNCHANGED <<chunkVars, splitVars, poolVars, batchVars, rollVars, rerunVars, startVars, itemVars, atomVars, retryVars, msgVars, resumeVars>>

SplitChunkNext ==
    \/ LinBegin
    \/ LinStep
    \/ ThreadFileWritten
    \/ \E readOK \in BOOLEAN : ChunkThreadBegin(readOK)
    \/ \E exists \in BOOLEAN, writeOK \in BOOLEAN : ChunkThreadWrite(exists, writeOK)
    \/ ChunkThreadReturn

SpecSplitChunk == SplitChunkInit /\ [][SplitChunkNext]_vars

\* How ChunkThread ends for a reason outside the thread file: a file system
\* error or an existing chunk file.
ChunkThreadIOErrors == {"read thread", "output file already exists", "write chunk file"}

\* C29: every thread file the splitter can write, one with no messages
\* included, is accepted by ChunkThread with a decider that does not fail:
\* the call ends with at least one chunk written, so such a conversation
\* cannot make the chunk stage fail.
C29_SplitterOutputAccepted ==
    (/\ tResult \notin {"idle", "start", "writing"}
     /\ tResult \notin ChunkThreadIOErrors
     /\ ~deciderErr)
        => (tResult = "ok" /\ Len(written) >= 1)

----------------------------------------------------------------------------
Init == ChunkInit
Next == ChunkNext
Spec == Init /\ [][Next]_vars
====
